---- MODULE Spec2Model ----
(***************************************************************************)
(* AI Caption Coach: the /api/captions route handler (POST), its provider  *)
(* gateway (callOpenAI), its response parsers and its fallback catalog,    *)
(* and the form component (CaptionCoachForm) that issues the requests.     *)
(*                                                                         *)
(* A JavaScript string is a sequence of one-character strings, so that     *)
(* trim, toLowerCase, Number and parseFloat are computed character by      *)
(* character.  The long literal texts of the fallback catalog are kept as  *)
(* one-element sequences holding the literal.                              *)
(***************************************************************************)
EXTENDS Integers, Sequences, FiniteSets, TLC

VARIABLES
    hasKey,     \* process.env.OPENAI_API_KEY is set and non-empty
    req,        \* the multipart request handed to POST
    pc,         \* where POST is: "start", "calling", "sleeping", "done"
    mode,       \* POST's local `mode` (Null until line 227)
    phase,      \* 0 before any callOpenAI, 1 first callOpenAI, 2 re-prompt callOpenAI
    attempt,    \* callOpenAI's loop variable of the running phase
    raw,        \* POST's local `raw` (the last text callOpenAI returned)
    parsed,     \* what the parser made of `raw`: it threw, or returned POST's local `items`
    messages,   \* the message list of the provider call last issued
    waitMs,     \* the duration handed to sleep() while pc = "sleeping"
    lastError,  \* callOpenAI's local `lastError` (NoError once callOpenAI has returned)
    thrown,     \* instrumentation: the error callOpenAI threw to POST, if it did
    response,   \* the NextResponse returned, NoResponse before
    log,        \* instrumentation: one entry per provider call and per sleep
    \* the useState cells of CaptionCoachForm
    formMode,       \* `mode`: "captions" or "bio"
    formTone,       \* `tone`: "" or one of the four tones
    formGuidance,   \* `guidance`
    formMaxChars,   \* `maxChars`: the text kept for the number input
    imageFile,      \* `imageFile`: NoEntry (null) or the chosen File
    imageError,     \* `imageError`: Null or a message
    formError,      \* `error`: Null or a message
    isSubmitting,   \* `isSubmitting`
    results,        \* `results`: NoResults (null) or the data of a 2xx response
    copiedKey,      \* `copiedKey`: Null or the key of the item last copied
    fetches         \* the fetches handleSubmit awaits, each with the mode it was sent for

formVars == <<formMode, formTone, formGuidance, formMaxChars, imageFile, imageError,
              formError, isSubmitting, results, copiedKey, fetches>>

serverVars == <<hasKey, req, pc, mode, phase, attempt, raw, parsed, messages, waitMs, lastError,
                thrown, response, log>>

vars == <<serverVars, formVars>>

-----------------------------------------------------------------------------
(* Bounds of the model *)

\* longest run of whitespace put around a sampled string
MaxPad == 1
\* longest items array a sampled provider reply carries
MaxItems == 6
\* most fetches the form is followed with at one time
MaxInFlight == 2

-----------------------------------------------------------------------------
(* Strings *)

Null == "null"

Min(S) == CHOOSE x \in S : \A y \in S : x <= y
Max(S) == CHOOSE x \in S : \A y \in S : x >= y

IsSpace(c) == c \in {" ", "\t", "\n", "\r"}

Rep(c, n) == [i \in 1..n |-> c]

\* the index of the first / last character of s that is not whitespace
FirstKept(s) == CHOOSE i \in DOMAIN s : ~IsSpace(s[i]) /\ \A j \in 1..(i - 1) : IsSpace(s[j])
LastKept(s) == CHOOSE i \in DOMAIN s : ~IsSpace(s[i]) /\ \A j \in (i + 1)..Len(s) : IsSpace(s[j])
AllSpace(s) == \A i \in DOMAIN s : IsSpace(s[i])

\* String.prototype.trim
Trim(s) == IF AllSpace(s) THEN <<>> ELSE SubSeq(s, FirstKept(s), LastKept(s))

\* String.prototype.trimStart (the whitespace skipping of parseFloat)
TrimStart(s) == IF AllSpace(s) THEN <<>> ELSE SubSeq(s, FirstKept(s), Len(s))

UpperAlphabet == <<"A","B","C","D","E","F","G","H","I","J","K","L","M",
                   "N","O","P","Q","R","S","T","U","V","W","X","Y","Z">>
LowerAlphabet == <<"a","b","c","d","e","f","g","h","i","j","k","l","m",
                   "n","o","p","q","r","s","t","u","v","w","x","y","z">>

LowerChar(c) ==
    IF \E i \in DOMAIN UpperAlphabet : UpperAlphabet[i] = c
    THEN LowerAlphabet[CHOOSE i \in DOMAIN UpperAlphabet : UpperAlphabet[i] = c]
    ELSE c

\* String.prototype.toLowerCase
ToLowerCase(s) == [i \in DOMAIN s |-> LowerChar(s[i])]

-----------------------------------------------------------------------------
(* Numbers.  A JavaScript number is kept in thousandths: [nan, milli] is   *)
(* NaN or the value milli/1000, exact for the decimal literals sampled     *)
(* here (at most three fraction digits, no exponent, no radix prefix).     *)

NaN == [nan |-> TRUE, milli |-> 0]
Num(m) == [nan |-> FALSE, milli |-> m]

DigitChars == <<"0","1","2","3","4","5","6","7","8","9">>
IsDigit(c) == \E i \in DOMAIN DigitChars : DigitChars[i] = c
DigitVal(c) == (CHOOSE i \in DOMAIN DigitChars : DigitChars[i] = c) - 1

RECURSIVE DigitsVal(_)
DigitsVal(s) ==
    IF s = <<>> THEN 0
    ELSE 10 * DigitsVal(SubSeq(s, 1, Len(s) - 1)) + DigitVal(s[Len(s)])

AllDigits(s) == \A i \in DOMAIN s : IsDigit(s[i])

\* the thousandths of a fraction part given by its digits
FracMilli(f) ==
    LET d == [i \in 1..3 |-> IF i <= Len(f) THEN f[i] ELSE "0"]
    IN  DigitsVal(d)

\* an unsigned StrDecimalLiteral: digits, digits., digits.digits, .digits
UnsignedDecimal(u) ==
    LET dots == {i \in DOMAIN u : u[i] = "."}
    IN  IF dots = {}
        THEN IF u # <<>> /\ AllDigits(u) THEN Num(1000 * DigitsVal(u)) ELSE NaN
        ELSE LET d == Min(dots)
                 ip == SubSeq(u, 1, d - 1)
                 fp == SubSeq(u, d + 1, Len(u))
             IN  IF AllDigits(ip) /\ AllDigits(fp) /\ Len(ip) + Len(fp) > 0
                 THEN Num(1000 * DigitsVal(ip) + FracMilli(fp))
                 ELSE NaN

SignedDecimal(t) ==
    IF t # <<>> /\ t[1] \in {"+", "-"}
    THEN LET n == UnsignedDecimal(Tail(t))
         IN  IF n.nan THEN NaN
             ELSE IF t[1] = "-" THEN Num(0 - n.milli) ELSE n
    ELSE UnsignedDecimal(t)

\* Number(string): surrounding whitespace ignored, "" is 0
StringToNumber(s) ==
    LET t == Trim(s)
    IN  IF t = <<>> THEN Num(0) ELSE SignedDecimal(t)

\* Number.parseFloat(string): the longest decimal prefix after leading whitespace
ParseFloat(s) ==
    LET t == TrimStart(s)
        good == {n \in 1..Len(t) : ~SignedDecimal(SubSeq(t, 1, n)).nan}
    IN  IF good = {} THEN NaN ELSE SignedDecimal(SubSeq(t, 1, Max(good)))

NumberIsInteger(n) == ~n.nan /\ n.milli % 1000 = 0
NumberIsFinite(n) == ~n.nan

-----------------------------------------------------------------------------
(* Program constants *)

CAPTIONS == <<"c","a","p","t","i","o","n","s">>
BIO == <<"b","i","o">>

FUNNY == <<"f","u","n","n","y">>
POETIC == <<"p","o","e","t","i","c">>
CLASSY == <<"c","l","a","s","s","y">>
BRANDED == <<"b","r","a","n","d","e","d">>

allowedTones == <<FUNNY, POETIC, CLASSY, BRANDED>>

maxCaptionGuidanceLength == 280
minBioGuidanceLength == 10
maxBioGuidanceLength == 400
maxCharsMin == 40
maxCharsMax == 220
MaxAttemptsPlusOne == 3 + 1
MAX_OPENAI_ATTEMPTS == 3
DefaultWaitSeconds == 20
captionsItemCount == 5
bioItemCount == 3
maxImageBytes == 3 * 1024 * 1024

IMAGE_PNG == "image/png"
IMAGE_JPEG == "image/jpeg"
allowedImageTypes == <<IMAGE_PNG, IMAGE_JPEG>>

\* Array.prototype.includes
Includes(arr, x) == \E i \in DOMAIN arr : arr[i] = x

-----------------------------------------------------------------------------
(* The request: the value FormData.get gives for each field is null, a     *)
(* string or a File.                                                       *)

NoEntry == [k |-> "null", s |-> <<>>, type |-> "", size |-> 0]
StrEntry(str) == [k |-> "str", s |-> str, type |-> "", size |-> 0]
FileEntry(t, n) == [k |-> "file", s |-> <<>>, type |-> t, size |-> n]

\* an optional local: undefined, or a value
Undefined == [def |-> FALSE, v |-> <<>>]
Some(x) == [def |-> TRUE, v |-> x]

\* const tone = typeof toneRaw === "string" ? toneRaw.toLowerCase() : undefined
ToneOf(r) == IF r.tone.k = "str" THEN Some(ToLowerCase(r.tone.s)) ELSE Undefined

\* const guidance = typeof guidanceRaw === "string" ? guidanceRaw.trim() : ""
GuidanceOf(r) == IF r.guidance.k = "str" THEN Trim(r.guidance.s) ELSE <<>>

\* const maxChars = typeof maxCharsRaw === "string" && maxCharsRaw.length > 0
\*                    ? Number(maxCharsRaw) : undefined
MaxCharsOf(r) ==
    IF r.maxChars.k = "str" /\ Len(r.maxChars.s) > 0
    THEN [def |-> TRUE, v |-> StringToNumber(r.maxChars.s)]
    ELSE [def |-> FALSE, v |-> NaN]

\* mutant: the test without its lower bound
MaxCharsRejectedNoLower(mc) ==
    mc.def /\ (~NumberIsInteger(mc.v) \/ mc.v.milli > 1000 * maxCharsMax)
\* the maxChars test of lines 255-260
MaxCharsRejected(mc) ==
    mc.def /\ (  ~NumberIsInteger(mc.v)
              \/ mc.v.milli < 1000 * maxCharsMin
              \/ mc.v.milli > 1000 * maxCharsMax)

\* mutant: the guidance bound is applied to the field as submitted
CaptionsRuleAsSubmitted(r) ==
    LET tone == ToneOf(r)
    IN  IF ~tone.def \/ tone.v = <<>> \/ ~Includes(allowedTones, tone.v) THEN "tone"
        ELSE IF r.guidance.k = "str" /\ Len(r.guidance.s) > maxCaptionGuidanceLength THEN "guidance"
        ELSE IF r.image.k # "file" THEN "image"
        ELSE IF ~Includes(allowedImageTypes, r.image.type) THEN "imageType"
        ELSE IF r.image.size > maxImageBytes THEN "imageSize"
        ELSE "ok"

\* the captions rules of lines 265-284, first failure first
CaptionsRule(r) ==
    LET tone == ToneOf(r)
        guidance == GuidanceOf(r)
    IN  IF ~tone.def \/ tone.v = <<>> \/ ~Includes(allowedTones, tone.v) THEN "tone"
        ELSE IF Len(guidance) > maxCaptionGuidanceLength THEN "guidance"
        ELSE IF r.image.k # "file" THEN "image"
        ELSE IF ~Includes(allowedImageTypes, r.image.type) THEN "imageType"
        ELSE IF r.image.size > maxImageBytes THEN "imageSize"
        ELSE "ok"

\* mutant: the lower bound of the bio guidance is exclusive
BioRuleExclusiveMin(r) ==
    LET tone == ToneOf(r)
        guidance == GuidanceOf(r)
    IN  IF Len(guidance) <= minBioGuidanceLength \/ Len(guidance) > maxBioGuidanceLength
        THEN "guidance"
        ELSE IF tone.def /\ tone.v # <<>> /\ ~Includes(allowedTones, tone.v) THEN "tone"
        ELSE "ok"

\* the bio rules of lines 364-370
BioRule(r) ==
    LET tone == ToneOf(r)
        guidance == GuidanceOf(r)
    IN  IF Len(guidance) < minBioGuidanceLength \/ Len(guidance) > maxBioGuidanceLength
        THEN "guidance"
        ELSE IF tone.def /\ tone.v # <<>> /\ ~Includes(allowedTones, tone.v) THEN "tone"
        ELSE "ok"

\* mutant: the credentials are looked at after the field rules
ValidationKeyLast(r, key) ==
    IF ~r.bodyOk THEN "throw"
    ELSE IF ~(r.mode.k = "str" /\ r.mode.s \in {CAPTIONS, BIO}) THEN "mode"
    ELSE IF MaxCharsRejected(MaxCharsOf(r)) THEN "maxChars"
    ELSE IF r.mode.s = CAPTIONS /\ CaptionsRule(r) # "ok" THEN CaptionsRule(r)
    ELSE IF r.mode.s = BIO /\ BioRule(r) # "ok" THEN BioRule(r)
    ELSE IF ~key THEN "nokey"
    ELSE "ok"
\* The synchronous head of POST, from formData() to the first return or to
\* the first callOpenAI: which exit it takes.
Validation(r, key) ==
    IF ~r.bodyOk THEN "throw"
    ELSE IF ~(r.mode.k = "str" /\ r.mode.s \in {CAPTIONS, BIO}) THEN "mode"
    ELSE IF ~key THEN "nokey"
    ELSE IF MaxCharsRejected(MaxCharsOf(r)) THEN "maxChars"
    ELSE IF r.mode.s = CAPTIONS THEN CaptionsRule(r)
    ELSE BioRule(r)

ModeString(m) == IF m = "captions" THEN CAPTIONS ELSE BIO

\* mutant: the mode is never assigned
ModeOfUnset(r) == Null

\* mode = modeValue as Mode
ModeOf(r) ==
    IF r.bodyOk /\ r.mode.k = "str" /\ r.mode.s = CAPTIONS THEN "captions"
    ELSE IF r.bodyOk /\ r.mode.k = "str" /\ r.mode.s = BIO THEN "bio"
    ELSE Null

-----------------------------------------------------------------------------
(* Fallback catalog (the em dash of three literals is written --) *)

buildFallbackCaptions ==
    << [text |-> <<"Fresh perspective coming your way--stay tuned for the full story behind this shot.">>,
        hashtags |-> <<"#behindthescenes #brandmoments #staytuned #socialready #captioncoach #storyteaser #creativepulse #shareworthy">>],
       [text |-> <<"Setting the scene with style while we polish the perfect caption for your feed.">>,
        hashtags |-> <<"#freshcaption #feedgoals #styleinspo #captioncoach #brandvibes #contentcrew #socialspark #stayready">>],
       [text |-> <<"A dose of personality is on deck--your tailored caption will land the moment the coach is ready.">>,
        hashtags |-> <<"#captionscoming #brandvoice #socialenergy #captioncoach #contentmagic #creativeflow #onbrand #watchthisspace">>],
       [text |-> <<"We are lining up details that hit the right tone--this placeholder keeps the post warm.">>,
        hashtags |-> <<"#tonecheck #brandready #captioncoach #socialsuite #creativeprep #marketingmadeeasy #contentqueue #comingsoon">>],
       [text |-> <<"This space is saving your prime caption real estate while the coach finalizes the perfect copy.">>,
        hashtags |-> <<"#captioncoach #socialcaption #brandspotlight #contentstudio #marketingflow #creativeprep #stayposted #copyinprogress">>] >>

buildFallbackBios ==
    << [text |-> <<"Creating feel-good moments while celebrating the details that make this story unique.">>],
       [text |-> <<"Sharing the highlights with warmth, purpose, and a spark of personality in every line.">>],
       [text |-> <<"Telling the brand story with heart, clarity, and a voice that feels true to you.">>] >>

FallbackItems(m) == IF m = "captions" THEN buildFallbackCaptions ELSE buildFallbackBios

-----------------------------------------------------------------------------
(* Provider replies.  A reply text is leading whitespace, a document and   *)
(* trailing whitespace.  The document is nothing at all ("empty"), text    *)
(* that is not JSON ("garbage"), or a JSON value:                          *)
(*   top    "null" | "other" (a number, a string, an array) | "object"     *)
(*   items  of an object: "absent" | "falsy" (null, 0, "", false)          *)
(*          | "other" (a truthy non-array) | "array"                       *)
(*   arr    the entries of an items array; an entry is "falsy",            *)
(*          "other" (a truthy non-object) or an "object" whose text and    *)
(*          hashtags fields are "absent", "other" (not a string) or "str". *)

NoField == [k |-> "absent", s |-> <<>>]
OtherField == [k |-> "other", s |-> <<>>]
StrField(str) == [k |-> "str", s |-> str]

ObjEntry(t, h) == [k |-> "object", text |-> t, hashtags |-> h]
FalsyEntry == [k |-> "falsy", text |-> NoField, hashtags |-> NoField]
OtherEntry == [k |-> "other", text |-> NoField, hashtags |-> NoField]

EmptyDoc == [k |-> "empty", top |-> "null", items |-> "absent", arr |-> <<>>]
GarbageDoc == [k |-> "garbage", top |-> "null", items |-> "absent", arr |-> <<>>]
JsonDoc(top, items, arr) == [k |-> "json", top |-> top, items |-> items, arr |-> arr]

Text(lead, doc, trail) == [lead |-> lead, doc |-> doc, trail |-> trail]

\* content.trim() of a reply text
TextTrim(t) == [t EXCEPT !.lead = <<>>, !.trail = <<>>]

\* !content of a string: the string has no character at all
TextIsEmpty(t) == t.lead = <<>> /\ t.doc.k = "empty" /\ t.trail = <<>>

Thrown == [ok |-> FALSE, items |-> <<>>]
Parsed(items) == [ok |-> TRUE, items |-> items]

\* mutant: the guard without its length test
ItemsRejectedAnyLength(t, n) ==
    \/ t.doc.k # "json"
    \/ t.doc.top # "object"
    \/ t.doc.items # "array"

\* JSON.parse(raw) throws, or the guard of lines 129-135 / 159-165 does
ItemsRejected(t, n) ==
    \/ t.doc.k # "json"
    \/ t.doc.top # "object"
    \/ t.doc.items # "array"
    \/ Len(t.doc.arr) # n

\* mutant: the hashtags of an entry are not looked at
parseCaptionsPayloadTextOnly(t) ==
    IF ItemsRejected(t, captionsItemCount) THEN Thrown
    ELSE IF \E i \in DOMAIN t.doc.arr :
                \/ t.doc.arr[i].k # "object"
                \/ t.doc.arr[i].text.k # "str"
         THEN Thrown
         ELSE Parsed([i \in DOMAIN t.doc.arr |->
                        [text |-> Trim(t.doc.arr[i].text.s),
                         hashtags |-> Trim(t.doc.arr[i].hashtags.s)]])

parseCaptionsPayload(t) ==
    IF ItemsRejected(t, captionsItemCount) THEN Thrown
    ELSE IF \E i \in DOMAIN t.doc.arr :
                \/ t.doc.arr[i].k # "object"
                \/ t.doc.arr[i].text.k # "str"
                \/ t.doc.arr[i].hashtags.k # "str"
         THEN Thrown
         ELSE Parsed([i \in DOMAIN t.doc.arr |->
                        [text |-> Trim(t.doc.arr[i].text.s),
                         hashtags |-> Trim(t.doc.arr[i].hashtags.s)]])

parseBioPayload(t) ==
    IF ItemsRejected(t, bioItemCount) THEN Thrown
    ELSE IF \E i \in DOMAIN t.doc.arr :
                \/ t.doc.arr[i].k # "object"
                \/ t.doc.arr[i].text.k # "str"
         THEN Thrown
         ELSE Parsed([i \in DOMAIN t.doc.arr |-> [text |-> Trim(t.doc.arr[i].text.s)]])

parsePayload(m, t) == IF m = "captions" THEN parseCaptionsPayload(t) ELSE parseBioPayload(t)

-----------------------------------------------------------------------------
(* Prompt messages.  An instruction text is kept as its template and the   *)
(* parameters interpolated into it.                                        *)

UpperChar(c) ==
    IF \E i \in DOMAIN LowerAlphabet : LowerAlphabet[i] = c
    THEN UpperAlphabet[CHOOSE i \in DOMAIN LowerAlphabet : LowerAlphabet[i] = c]
    ELSE c

\* `${tone.charAt(0).toUpperCase()}${tone.slice(1)}`
Capitalize(s) == IF s = <<>> THEN <<>> ELSE <<UpperChar(s[1])>> \o Tail(s)

NONE == <<"n","o","n","e">>
NoText == Text(<<>>, EmptyDoc, <<>>)
NoImage == [type |-> "", size |-> 0]
NoInstr == [template |-> "none", tone |-> <<>>, maxChars |-> [def |-> FALSE, v |-> NaN], guidance |-> <<>>]

Instr(template, tone, maxChars, guidance) ==
    [template |-> template, tone |-> tone, maxChars |-> maxChars, guidance |-> guidance]

Message(role, shape, instr, image, reply) ==
    [role |-> role, shape |-> shape, instr |-> instr, image |-> image, reply |-> reply]

SystemMessage ==
    Message("system", "string", Instr("systemPrompt", <<>>, [def |-> FALSE, v |-> NaN], <<>>), NoImage, NoText)

\* lines 286-330
CaptionsMessages(r) ==
    LET g == GuidanceOf(r)
    IN  << SystemMessage,
           Message("user", "parts",
                   Instr("captions", Capitalize(ToneOf(r).v), MaxCharsOf(r),
                         IF g = <<>> THEN NONE ELSE g),
                   [type |-> r.image.type, size |-> r.image.size], NoText) >>

\* effectiveTone, lines 372-373
EffectiveTone(r) ==
    LET tone == ToneOf(r)
    IN  IF tone.def /\ tone.v # <<>> /\ Includes(allowedTones, tone.v) THEN tone.v ELSE CLASSY

\* lines 375-403
BioMessages(r) ==
    << SystemMessage,
       Message("user", "string",
               Instr("bio", Capitalize(EffectiveTone(r)), MaxCharsOf(r), GuidanceOf(r)),
               NoImage, NoText) >>

FirstMessages(r) == IF ModeOf(r) = "captions" THEN CaptionsMessages(r) ELSE BioMessages(r)

\* mutant: the re-prompt carries the system directive, the reply and the
\* corrective instruction, without the original user instruction
RetryMessagesWithoutInstruction(m, msgs, reply) ==
    << msgs[1],
       Message("assistant", "string", NoInstr, NoImage, reply),
       IF m = "captions"
       THEN Message("user", "parts",
                    Instr("retryCaptions", <<>>, [def |-> FALSE, v |-> NaN], <<>>),
                    NoImage, NoText)
       ELSE Message("user", "string",
                    Instr("retryBio", <<>>, [def |-> FALSE, v |-> NaN], <<>>),
                    NoImage, NoText) >>

\* lines 338-350 and 411-419
RetryMessages(m, msgs, reply) ==
    msgs \o << Message("assistant", "string", NoInstr, NoImage, reply),
               IF m = "captions"
               THEN Message("user", "parts",
                            Instr("retryCaptions", <<>>, [def |-> FALSE, v |-> NaN], <<>>),
                            NoImage, NoText)
               ELSE Message("user", "string",
                            Instr("retryBio", <<>>, [def |-> FALSE, v |-> NaN], <<>>),
                            NoImage, NoText) >>

-----------------------------------------------------------------------------
(* Errors and responses *)

NoHeader == [k |-> "absent", s |-> <<>>]
Header(str) == [k |-> "str", s |-> str]

\* cls: "RateLimitError" (an APIError), "APIError" (any other one), "Error";
\* status 0 stands for no status property
Err(cls, status, retryAfter) == [cls |-> cls, status |-> status, retryAfter |-> retryAfter]
NoError == Err("none", 0, NoHeader)
EmptyResponseError == Err("Error", 0, NoHeader)
FormDataError == Err("Error", 0, NoHeader)

\* error instanceof OpenAI.APIError
IsAPIError(e) == e.cls \in {"RateLimitError", "APIError"}

\* line 99
IsRateLimit(e) == e.cls = "RateLimitError" \/ e.status = 429

\* mutant: the wait doubles with each attempt
WaitSecondsGrowing(e) ==
    LET retryAfterSeconds == IF e.retryAfter.k = "str" /\ e.retryAfter.s # <<>>
                             THEN ParseFloat(e.retryAfter.s) ELSE NaN
    IN  IF NumberIsFinite(retryAfterSeconds) /\ retryAfterSeconds.milli > 0
        THEN Num(retryAfterSeconds.milli * attempt)
        ELSE Num(1000 * DefaultWaitSeconds * attempt)

\* lines 100-103
WaitSeconds(e) ==
    LET retryAfterSeconds == IF e.retryAfter.k = "str" /\ e.retryAfter.s # <<>>
                             THEN ParseFloat(e.retryAfter.s) ELSE NaN
    IN  IF NumberIsFinite(retryAfterSeconds) /\ retryAfterSeconds.milli > 0
        THEN retryAfterSeconds
        ELSE Num(1000 * DefaultWaitSeconds)

NoResponse == [status |-> 0, mode |-> Null, items |-> <<>>, error |-> ""]
ErrorResponse(st, msg) == [status |-> st, mode |-> Null, items |-> <<>>, error |-> msg]
ItemsResponse(m, items) == [status |-> 200, mode |-> m, items |-> items, error |-> ""]
InvalidInput == ErrorResponse(400, "Invalid input")

\* mutant: a rate limit is surfaced as 429 whether or not a fallback exists
CatchOuterSurfaces429(m, e) ==
    LET hasFallback == m \in {"captions", "bio"}
    IN  IF IsAPIError(e) /\ e.status = 429
        THEN ErrorResponse(429, "Easy there. Try again in a moment.")
        ELSE IF IsAPIError(e) /\ e.status \in {401, 403}
        THEN ErrorResponse(500, "Check your OpenAI credentials.")
        ELSE IF hasFallback THEN ItemsResponse(m, FallbackItems(m))
        ELSE ErrorResponse(500, "Something went wrong")

\* mutant: a failure that is no provider error is answered as invalid input
CatchOuterInvalidInput(m, e) ==
    IF IsAPIError(e) /\ e.status = 429
    THEN ItemsResponse(m, FallbackItems(m))
    ELSE IF IsAPIError(e) /\ e.status \in {401, 403}
    THEN ErrorResponse(500, "Check your OpenAI credentials.")
    ELSE ErrorResponse(400, "Invalid input")

\* mutant: an authorization failure is answered like any other provider error
CatchOuterNoAuthCheck(m, e) ==
    LET hasFallback == m \in {"captions", "bio"}
    IN  IF IsAPIError(e) /\ e.status = 429
        THEN IF hasFallback THEN ItemsResponse(m, FallbackItems(m))
             ELSE ErrorResponse(429, "Easy there. Try again in a moment.")
        ELSE IF hasFallback THEN ItemsResponse(m, FallbackItems(m))
        ELSE ErrorResponse(500, "Something went wrong")

\* the catch of POST, lines 430-466
CatchOuter(m, e) ==
    LET hasFallback == m \in {"captions", "bio"}
    IN  IF IsAPIError(e) /\ e.status = 429
        THEN IF hasFallback THEN ItemsResponse(m, FallbackItems(m))
             ELSE ErrorResponse(429, "Easy there. Try again in a moment.")
        ELSE IF IsAPIError(e) /\ e.status \in {401, 403}
        THEN ErrorResponse(500, "Check your OpenAI credentials.")
        ELSE IF hasFallback THEN ItemsResponse(m, FallbackItems(m))
        ELSE ErrorResponse(500, "Something went wrong")

\* mutant: a failure of the re-prompt is handled by the catch of POST
CatchRetryAsOuter(m, e) == CatchOuter(m, e)

\* mutant: the re-prompt has no catch of its own
CatchRetryMissing(m, e) == ErrorResponse(500, "Something went wrong")

\* the inner catch of the re-prompt, lines 355-357 and 424-426
CatchRetry(m, e) == ItemsResponse(m, FallbackItems(m))

-----------------------------------------------------------------------------
(* Sampled inputs *)

Pad(n) == Rep(" ", n)
Padded(p, str) == Pad(p) \o str \o Pad(p)

GuidanceLengths ==
    {0, minBioGuidanceLength - 1, minBioGuidanceLength,
     maxCaptionGuidanceLength, maxCaptionGuidanceLength + 1,
     maxBioGuidanceLength, maxBioGuidanceLength + 1}

AnyFile == FileEntry("text/plain", 1)

ModeEntries ==
    {NoEntry, AnyFile} \cup
    {StrEntry(m) : m \in {CAPTIONS, BIO, <<"w","e","a","t","h","e","r">>,
                          <<"C","a","p","t","i","o","n","s">>}}

ToneEntries ==
    {NoEntry, AnyFile} \cup
    {StrEntry(t) : t \in {<<>>, FUNNY, <<"C","l","a","s","s","y">>,
                          <<"P","O","E","T","I","C">>,
                          <<"l","o","u","d">>, <<" ">> \o FUNNY}}

GuidanceEntries ==
    {NoEntry, AnyFile} \cup
    {StrEntry(Padded(p, Rep("x", n))) : p \in 0..MaxPad, n \in GuidanceLengths}

MaxCharsEntries ==
    {NoEntry, AnyFile} \cup
    {StrEntry(m) : m \in {<<>>, <<"3","9">>, <<"4","0">>, <<"2","2","0">>, <<"2","2","1">>,
                          <<"4","0",".","5">>, <<"4","0",".","0">>, <<" ","4","0"," ">>,
                          <<"4","a">>, <<" ">>}}

ImageEntries ==
    {NoEntry, StrEntry(<<"x">>),
     FileEntry(IMAGE_PNG, 2 * 1024 * 1024),
     FileEntry(IMAGE_JPEG, maxImageBytes),
     FileEntry(IMAGE_PNG, maxImageBytes + 1),
     FileEntry(IMAGE_PNG, 4 * 1024 * 1024),
     FileEntry("image/gif", 1)}

Request(m, t, g, c, i) ==
    [bodyOk |-> TRUE, mode |-> m, tone |-> t, guidance |-> g, maxChars |-> c, image |-> i]

\* no request at all
NoRequest == Request(NoEntry, NoEntry, NoEntry, NoEntry, NoEntry)

\* a request whose body request.formData() cannot read
UnreadableRequest ==
    [bodyOk |-> FALSE, mode |-> NoEntry, tone |-> NoEntry, guidance |-> NoEntry,
     maxChars |-> NoEntry, image |-> NoEntry]

\* every combination of the sampled field values
AllRequests ==
    {UnreadableRequest} \cup
    {Request(m, t, g, c, i) : m \in ModeEntries, t \in ToneEntries, g \in GuidanceEntries,
                              c \in MaxCharsEntries, i \in ImageEntries}

\* the requests the orchestration is run on
CoreRequests ==
    {UnreadableRequest} \cup
    {Request(m, t, g, c, i) :
        m \in {StrEntry(CAPTIONS), StrEntry(BIO), StrEntry(<<"w","e","a","t","h","e","r">>)},
        t \in {NoEntry, StrEntry(<<"C","l","a","s","s","y">>)},
        g \in {NoEntry, StrEntry(Padded(MaxPad, Rep("x", minBioGuidanceLength)))},
        c \in {NoEntry, StrEntry(<<"3","9">>)},
        i \in {NoEntry, FileEntry(IMAGE_PNG, 2 * 1024 * 1024)}}

\* entries of a sampled items array
GoodEntry(p, c) == ObjEntry(StrField(Padded(p, <<c>>)), StrField(Padded(p, <<"#", c>>)))

DeviantEntries ==
    {FalsyEntry, OtherEntry,
     ObjEntry(StrField(Pad(MaxPad)), StrField(<<"#","a">>)),
     ObjEntry(StrField(<<"a">>), StrField(<<>>)),
     ObjEntry(OtherField, StrField(<<"#","a">>)),
     ObjEntry(StrField(<<"a">>), OtherField),
     ObjEntry(NoField, StrField(<<"#","a">>)),
     ObjEntry(StrField(<<"a">>), NoField)}

UniformArrays ==
    {[i \in 1..n |-> GoodEntry(0, "a")] : n \in 0..MaxItems}
    \cup {[i \in 1..n |-> GoodEntry(p, "b")] : n \in {bioItemCount, captionsItemCount}, p \in 1..MaxPad}

\* an array of the right length whose last entry is a deviant one
DeviantArrays ==
    {[[i \in 1..n |-> GoodEntry(0, "a")] EXCEPT ![n] = d] :
        n \in {bioItemCount, captionsItemCount}, d \in DeviantEntries}

SampleDocs ==
    {EmptyDoc, GarbageDoc, JsonDoc("null", "absent", <<>>), JsonDoc("other", "absent", <<>>),
     JsonDoc("object", "absent", <<>>), JsonDoc("object", "falsy", <<>>),
     JsonDoc("object", "other", <<>>)}
    \cup {JsonDoc("object", "array", a) : a \in UniformArrays \cup DeviantArrays}

\* the documents also sampled with whitespace around them
PaddedDocs ==
    {EmptyDoc, GarbageDoc}
    \cup {JsonDoc("object", "array", [i \in 1..n |-> GoodEntry(0, "a")]) :
            n \in {bioItemCount, captionsItemCount}}

\* what response.choices[0]?.message?.content can be
NoContent == [k |-> "none", t |-> NoText]
StringContent(t) == [k |-> "string", t |-> t]
\* an array of parts, t being the parts joined by "\n"
ArrayContent(t) == [k |-> "array", t |-> t]

SampleContents ==
    {NoContent}
    \cup {StringContent(Text(<<>>, d, <<>>)) : d \in SampleDocs}
    \cup {StringContent(Text(Pad(p), d, Pad(p))) : p \in 1..MaxPad, d \in PaddedDocs}
    \cup {ArrayContent(Text(<<>>, d, <<>>)) : d \in {EmptyDoc, GarbageDoc}}

\* retry-after headers: absent, empty, a number of seconds, zero, negative,
\* fractional, no number
SampleHeaders ==
    {NoHeader, Header(<<>>), Header(<<"2">>), Header(<<"0">>), Header(<<"-","1">>),
     Header(<<"1",".","5">>), Header(<<"s","o","o","n">>)}

SampleErrors ==
    {Err("RateLimitError", 429, h) : h \in SampleHeaders}
    \cup {Err("APIError", st, NoHeader) : st \in {0, 401, 403, 429, 500}}
    \cup {Err("Error", st, NoHeader) : st \in {0, 401, 429}}

-----------------------------------------------------------------------------
(* Instrumentation: the provider calls and sleeps of the request, in order *)

CallEntry(ph, att) == [op |-> "call", phase |-> ph, attempt |-> att, outcome |-> "inflight"]
SleepEntry(ph, att) == [op |-> "sleep", phase |-> ph, attempt |-> att, outcome |-> "slept"]

Settle(l, outcome) == [l EXCEPT ![Len(l)].outcome = outcome]

\* what the provider signalled: a rate limit is a RateLimitError or a status of 429
ErrorKind(e) ==
    IF e.cls = "RateLimitError" \/ e.status = 429 THEN "ratelimit"
    ELSE IF IsAPIError(e) /\ e.status \in {401, 403} THEN "auth"
    ELSE "error"

Calls(l) == {i \in DOMAIN l : l[i].op = "call"}
CallsIn(l, ph) == {i \in DOMAIN l : l[i].op = "call" /\ l[i].phase = ph}
Sleeps(l) == {i \in DOMAIN l : l[i].op = "sleep"}

-----------------------------------------------------------------------------
(* The form: what CaptionCoachForm derives from its state on each render *)

NoResults == [mode |-> Null, items |-> <<>>]

\* const trimmedGuidance = guidance.trim()
trimmedGuidance == Trim(formGuidance)

\* const guidanceLength = guidance.length
guidanceLength == Len(formGuidance)

\* mutant: the bio bounds are tested on the text as typed
guidanceIsValidForBioAsTyped ==
    /\ guidanceLength >= minBioGuidanceLength
    /\ guidanceLength <= maxBioGuidanceLength

guidanceIsValidForBio ==
    /\ Len(trimmedGuidance) >= minBioGuidanceLength
    /\ Len(trimmedGuidance) <= maxBioGuidanceLength

guidanceIsValidForCaptions == guidanceLength <= maxCaptionGuidanceLength

\* const maxCharsValue = maxChars ? Number(maxChars) : undefined
maxCharsValue ==
    IF formMaxChars # <<>>
    THEN [def |-> TRUE, v |-> StringToNumber(formMaxChars)]
    ELSE [def |-> FALSE, v |-> NaN]

maxCharsIsValid ==
    \/ formMaxChars = <<>>
    \/ /\ NumberIsInteger(maxCharsValue.v)
       /\ maxCharsValue.v.milli >= 1000 * maxCharsMin
       /\ maxCharsValue.v.milli <= 1000 * maxCharsMax

ctaEnabled ==
    IF ~maxCharsIsValid THEN FALSE
    ELSE IF formMode = "captions"
         THEN imageFile # NoEntry /\ formTone # <<>> /\ guidanceIsValidForCaptions
         ELSE guidanceIsValidForBio

\* Math.trunc
Trunc(n) ==
    IF n.nan THEN NaN
    ELSE IF n.milli >= 0 THEN Num(1000 * (n.milli \div 1000))
    ELSE Num(0 - 1000 * ((0 - n.milli) \div 1000))

RECURSIVE NatToString(_)
NatToString(k) ==
    IF k < 10 THEN <<DigitChars[k + 1]>>
    ELSE NatToString(k \div 10) \o <<DigitChars[(k % 10) + 1]>>

\* String(number), for the integers and NaN
NumberToString(n) ==
    IF n.nan THEN <<"N","a","N">>
    ELSE IF n.milli < 0 THEN <<"-">> \o NatToString((0 - n.milli) \div 1000)
    ELSE NatToString(n.milli \div 1000)

\* the FormData handleSubmit builds (lines 172-191)
FormRequest ==
    Request(StrEntry(ModeString(formMode)),
            IF formMode = "captions" THEN StrEntry(formTone)
            ELSE IF formTone # <<>> THEN StrEntry(formTone) ELSE NoEntry,
            IF trimmedGuidance # <<>> THEN StrEntry(trimmedGuidance) ELSE NoEntry,
            IF maxCharsValue.def /\ ~maxCharsValue.v.nan /\ maxCharsValue.v.milli # 0
               /\ maxCharsIsValid
            THEN StrEntry(NumberToString(maxCharsValue.v)) ELSE NoEntry,
            IF formMode = "captions" /\ imageFile # NoEntry THEN imageFile ELSE NoEntry)

-----------------------------------------------------------------------------
(* The state machine *)

\* the form as useState leaves it on its first render (lines 40-49)
FormInit ==
    /\ formMode = "captions"
    /\ formTone = <<>>
    /\ formGuidance = <<>>
    /\ formMaxChars = <<>>
    /\ imageFile = NoEntry
    /\ imageError = Null
    /\ formError = Null
    /\ isSubmitting = FALSE
    /\ results = NoResults
    /\ copiedKey = Null
    /\ fetches = <<>>

InitWith(requests) ==
    /\ FormInit
    /\ hasKey \in BOOLEAN
    /\ req \in requests
    /\ pc = "start"
    /\ mode = Null
    /\ phase = 0
    /\ attempt = 0
    /\ raw = NoText
    /\ parsed = Thrown
    /\ messages = <<>>
    /\ waitMs = 0
    /\ lastError = NoError
    /\ thrown = NoError
    /\ response = NoResponse
    /\ log = <<>>

Init == InitWith(CoreRequests)

\* return NextResponse.json(...)
Respond(resp) ==
    /\ pc' = "done"
    /\ response' = resp
    /\ waitMs' = 0

\* callOpenAI(msgs) is entered: attempt 1 calls openai.chat.completions.create
EnterCallOpenAI(ph, msgs) ==
    /\ pc' = "calling"
    /\ phase' = ph
    /\ attempt' = 1
    /\ messages' = msgs
    /\ waitMs' = 0
    /\ lastError' = NoError
    /\ log' = Append(IF ph = 1 THEN log ELSE Settle(log, "text"), CallEntry(ph, 1))
    /\ UNCHANGED <<response, thrown>>

\* POST from its entry to its first return or its first provider call
\* (lines 216-332 and 363-405)
POSTBegin ==
    /\ pc = "start"
    /\ LET v == Validation(req, hasKey)
       IN  /\ mode' = IF v \in {"throw", "mode"} THEN Null ELSE ModeOf(req)
           /\ IF v = "ok"
              THEN EnterCallOpenAI(1, FirstMessages(req))
              ELSE /\ Respond(IF v = "throw" THEN CatchOuter(Null, FormDataError)
                              ELSE IF v = "nokey"
                                   THEN ItemsResponse(ModeOf(req), FallbackItems(ModeOf(req)))
                                   ELSE InvalidInput)
                   /\ UNCHANGED <<phase, attempt, messages, log, lastError, thrown>>
    /\ UNCHANGED <<hasKey, req, raw, parsed, formVars>>

\* mutant: the reply to the re-prompt is never used
ReturnedDropsSecondReply(text) ==
    LET p == parsePayload(mode, text)
    IN  /\ raw' = text
        /\ parsed' = p
        /\ IF p.ok /\ phase = 1
           THEN /\ Respond(ItemsResponse(mode, p.items))
                /\ log' = Settle(log, "text")
                /\ lastError' = NoError
                /\ UNCHANGED <<phase, attempt, messages, thrown>>
           ELSE IF phase = 1
                THEN EnterCallOpenAI(2, RetryMessages(mode, messages, text))
                ELSE /\ Respond(CatchRetry(mode, NoError))
                     /\ log' = Settle(log, "text")
                     /\ lastError' = NoError
                     /\ UNCHANGED <<phase, attempt, messages, thrown>>

\* mutant: the first reply is followed by a re-prompt whether it parses or not
ReturnedAlwaysReprompts(text) ==
    LET p == parsePayload(mode, text)
    IN  /\ raw' = text
        /\ parsed' = p
        /\ IF phase = 1
           THEN EnterCallOpenAI(2, RetryMessages(mode, messages, text))
           ELSE /\ Respond(IF p.ok THEN ItemsResponse(mode, p.items) ELSE CatchRetry(mode, NoError))
                /\ log' = Settle(log, "text")
                /\ lastError' = NoError
                /\ UNCHANGED <<phase, attempt, messages, thrown>>

\* callOpenAI returned `text` to POST (lines 332-360 and 405-429)
Returned(text) ==
    LET p == parsePayload(mode, text)
    IN  /\ raw' = text
        /\ parsed' = p
        /\ IF p.ok
           THEN /\ Respond(ItemsResponse(mode, p.items))
                /\ log' = Settle(log, "text")
                /\ lastError' = NoError
                /\ UNCHANGED <<phase, attempt, messages, thrown>>
           ELSE IF phase = 1
                THEN EnterCallOpenAI(2, RetryMessages(mode, messages, text))
                ELSE /\ Respond(CatchRetry(mode, NoError))
                     /\ log' = Settle(log, "text")
                     /\ lastError' = NoError
                     /\ UNCHANGED <<phase, attempt, messages, thrown>>

\* mutant: a generic error is thrown once the attempts are used up
ExhaustedGeneric(last) == Err("Error", 0, NoHeader)

\* line 117: throw lastError ?? new Error("OpenAI request failed")
Exhausted(last) == IF last = NoError THEN Err("Error", 0, NoHeader) ELSE last

\* callOpenAI threw `e` to POST
Threw(e, outcome) ==
    /\ Respond(IF phase = 1 THEN CatchOuter(mode, e) ELSE CatchRetry(mode, e))
    /\ thrown' = e
    /\ log' = Settle(log, outcome)
    /\ UNCHANGED <<phase, attempt, messages, raw, parsed>>

\* mutant: every failed attempt but the third is followed by a sleep and another attempt
CaughtRetriesAll(e, outcome) ==
    /\ lastError' = e
    /\ IF attempt = MAX_OPENAI_ATTEMPTS
       THEN Threw(Exhausted(e), outcome)
       ELSE /\ pc' = "sleeping"
            /\ waitMs' = WaitSeconds(e).milli
            /\ log' = Append(Settle(log, outcome), SleepEntry(phase, attempt))
            /\ UNCHANGED <<phase, attempt, messages, raw, parsed, response, thrown>>

\* mutant: a rate-limited attempt is always followed by a sleep and another attempt
CaughtNoCeiling(e, outcome) ==
    /\ lastError' = e
    /\ IF IsRateLimit(e)
       THEN /\ pc' = "sleeping"
            /\ waitMs' = WaitSeconds(e).milli
            /\ log' = Append(Settle(log, outcome), SleepEntry(phase, attempt))
            /\ UNCHANGED <<phase, attempt, messages, raw, parsed, response, thrown>>
       ELSE Threw(e, outcome)
\* the catch of callOpenAI, lines 96-114, and line 117
Caught(e, outcome) ==
    /\ lastError' = e
    /\ IF IsRateLimit(e)
       THEN IF attempt = MAX_OPENAI_ATTEMPTS
            THEN Threw(Exhausted(e), outcome)
            ELSE /\ pc' = "sleeping"
                 /\ waitMs' = WaitSeconds(e).milli
                 /\ log' = Append(Settle(log, outcome), SleepEntry(phase, attempt))
                 /\ UNCHANGED <<phase, attempt, messages, raw, parsed, response, thrown>>
       ELSE Threw(e, outcome)

\* openai.chat.completions.create resolves with `c` as the content of its
\* first choice (lines 62-95)
CreateResolves ==
    /\ pc = "calling"
    /\ \E c \in SampleContents :
          IF c.k = "none" \/ (c.k = "string" /\ TextIsEmpty(c.t))
          THEN Caught(EmptyResponseError, "empty")
          ELSE Returned(TextTrim(c.t))
    /\ UNCHANGED <<hasKey, req, mode, formVars>>

\* openai.chat.completions.create rejects with `e`
CreateRejects ==
    /\ pc = "calling"
    /\ \E e \in SampleErrors : Caught(e, ErrorKind(e))
    /\ UNCHANGED <<hasKey, req, mode, formVars>>

\* sleep() resolves: the loop of callOpenAI goes to its next attempt
SleepResolves ==
    /\ pc = "sleeping"
    /\ pc' = "calling"
    /\ attempt' = attempt + 1
    /\ waitMs' = 0
    /\ log' = Append(log, CallEntry(phase, attempt + 1))
    /\ UNCHANGED <<hasKey, req, mode, phase, raw, parsed, messages, lastError, thrown, response,
                   formVars>>

Next == POSTBegin \/ CreateResolves \/ CreateRejects \/ SleepResolves

Spec == Init /\ [][Next]_vars

\* the validator on every combination of the sampled field values
InitValidate == InitWith(AllRequests)
NextValidate == POSTBegin
SpecValidate == InitValidate /\ [][NextValidate]_vars

-----------------------------------------------------------------------------
(* The parsers on their own *)

Letters == <<"a","b","c","d","e","f","g","h">>

\* n well-formed entries, each with its own letter and its own padding
OrderedArray(n, p) == [i \in 1..n |-> GoodEntry((i + p) % (MaxPad + 1), Letters[i])]

\* every array of up to MaxItems entries, well-formed throughout or with one
\* deviant entry at any position
SampleArrays ==
    {OrderedArray(n, p) : n \in 0..MaxItems, p \in 0..MaxPad}
    \cup UNION {{[OrderedArray(n, p) EXCEPT ![j] = d] :
                    p \in 0..MaxPad, j \in 1..n, d \in DeviantEntries} : n \in 1..MaxItems}

SampleTexts ==
    {Text(Pad(p), d, Pad(q)) :
        p \in 0..MaxPad, q \in 0..MaxPad,
        d \in {EmptyDoc, GarbageDoc, JsonDoc("null", "absent", <<>>),
               JsonDoc("other", "absent", <<>>), JsonDoc("object", "absent", <<>>),
               JsonDoc("object", "falsy", <<>>), JsonDoc("object", "other", <<>>)}
              \cup {JsonDoc("object", "array", a) : a \in SampleArrays}}

\* a reply is at hand and the parser of the mode is about to be called on it
InitParse ==
    /\ FormInit
    /\ hasKey = TRUE
    /\ req = NoRequest
    /\ pc = "parsing"
    /\ mode \in {"captions", "bio"}
    /\ phase = 1
    /\ attempt = 1
    /\ raw \in SampleTexts
    /\ parsed = Thrown
    /\ messages = <<>>
    /\ waitMs = 0
    /\ lastError = NoError
    /\ thrown = NoError
    /\ response = NoResponse
    /\ log = <<>>

\* items = parseCaptionsPayload(raw) or items = parseBioPayload(raw)
ParseReply ==
    /\ pc = "parsing"
    /\ pc' = "parsed"
    /\ parsed' = parsePayload(mode, raw)
    /\ UNCHANGED <<hasKey, req, mode, phase, attempt, raw, messages, waitMs, lastError, thrown,
                   response, log, formVars>>

NextParse == ParseReply

SpecParse == InitParse /\ [][NextParse]_vars

-----------------------------------------------------------------------------
(* The form's handlers *)

\* what the user can put into the fields
SampleGuidance == {Padded(p, Rep("x", n)) : p \in 0..MaxPad, n \in GuidanceLengths}

SampleMaxChars ==
    {<<>>, <<"0">>, <<"3","9">>, <<"4","0">>, <<"4","0",".","5">>, <<"2","2","0">>,
     <<"2","2","1">>}

SampleFileLists ==
    {<<>>,
     <<FileEntry(IMAGE_PNG, 2 * 1024 * 1024)>>,
     <<FileEntry(IMAGE_JPEG, maxImageBytes), FileEntry("image/gif", 1)>>,
     <<FileEntry(IMAGE_PNG, maxImageBytes + 1)>>,
     <<FileEntry("image/gif", 1)>>}

\* the route handler holds the request `r` at `p` and has done nothing yet
ServerAt(p, r) ==
    /\ pc' = p
    /\ req' = r
    /\ mode' = Null
    /\ phase' = 0
    /\ attempt' = 0
    /\ raw' = NoText
    /\ parsed' = Thrown
    /\ messages' = <<>>
    /\ waitMs' = 0
    /\ lastError' = NoError
    /\ thrown' = NoError
    /\ response' = NoResponse
    /\ log' = <<>>
    /\ UNCHANGED hasKey

\* mutant: a mode change drops the chosen file whatever the next mode
resetForModeDropsFile(nextMode) ==
    /\ formMode' = nextMode
    /\ formError' = Null
    /\ results' = NoResults
    /\ imageError' = Null
    /\ imageFile' = NoEntry
    /\ UNCHANGED <<formTone, formGuidance, formMaxChars, isSubmitting, copiedKey, fetches>>

resetForMode(nextMode) ==
    /\ formMode' = nextMode
    /\ formError' = Null
    /\ results' = NoResults
    /\ imageError' = Null
    /\ imageFile' = IF nextMode = "bio" THEN NoEntry ELSE imageFile
    /\ UNCHANGED <<formTone, formGuidance, formMaxChars, isSubmitting, copiedKey, fetches>>

onModeChange(next) == resetForMode(next)

onToneChange(value) ==
    /\ formTone' = value
    /\ UNCHANGED <<formMode, formGuidance, formMaxChars, imageFile, imageError, formError,
                   isSubmitting, results, copiedKey, fetches>>

\* the maxLength of the textarea (lines 415-419)
GuidanceMaxLength ==
    IF formMode = "captions" THEN maxCaptionGuidanceLength ELSE maxBioGuidanceLength

\* the textarea lets the text grow up to its maxLength only
onGuidanceChange(value) ==
    /\ Len(value) <= GuidanceMaxLength \/ Len(value) <= Len(formGuidance)
    /\ formGuidance' = value
    /\ UNCHANGED <<formMode, formTone, formMaxChars, imageFile, imageError, formError,
                   isSubmitting, results, copiedKey, fetches>>

onMaxCharsChange(value) ==
    /\ LET numeric == StringToNumber(value)
       IN  formMaxChars' = IF value = <<>> THEN <<>>
                           ELSE IF numeric.nan THEN formMaxChars
                           ELSE NumberToString(Trunc(numeric))
    /\ UNCHANGED <<formMode, formTone, formGuidance, imageFile, imageError, formError,
                   isSubmitting, results, copiedKey, fetches>>

\* mutant: a selection that is turned down leaves the file chosen before
onImageChangeKeepsFile(files) ==
    /\ formMode = "captions"
    /\ IF Len(files) = 0
       THEN imageFile' = NoEntry /\ imageError' = Null
       ELSE LET file == files[1]
            IN  IF ~Includes(allowedImageTypes, file.type)
                THEN /\ imageFile' = imageFile
                     /\ imageError' = "Please upload a JPG or PNG image."
                ELSE IF file.size > maxImageBytes
                THEN /\ imageFile' = imageFile
                     /\ imageError' = "Image must be 3MB or smaller."
                ELSE /\ imageFile' = file
                     /\ imageError' = Null
    /\ UNCHANGED <<formMode, formTone, formGuidance, formMaxChars, formError, isSubmitting,
                   results, copiedKey, fetches>>

\* the file input is disabled in bio mode (line 298)
onImageChange(files) ==
    /\ formMode = "captions"
    /\ IF Len(files) = 0
       THEN imageFile' = NoEntry /\ imageError' = Null
       ELSE LET file == files[1]
            IN  IF ~Includes(allowedImageTypes, file.type)
                THEN /\ imageFile' = NoEntry
                     /\ imageError' = "Please upload a JPG or PNG image."
                ELSE IF file.size > maxImageBytes
                THEN /\ imageFile' = NoEntry
                     /\ imageError' = "Image must be 3MB or smaller."
                ELSE /\ imageFile' = file
                     /\ imageError' = Null
    /\ UNCHANGED <<formMode, formTone, formGuidance, formMaxChars, formError, isSubmitting,
                   results, copiedKey, fetches>>

\* handleSubmit up to its `await fetch` (lines 163-195)
handleSubmit ==
    /\ ctaEnabled
    /\ isSubmitting' = TRUE
    /\ formError' = Null
    /\ results' = NoResults
    /\ fetches' = Append(fetches, [mode |-> formMode])
    /\ UNCHANGED <<formMode, formTone, formGuidance, formMaxChars, imageFile, imageError,
                   copiedKey>>

\* what `await fetch` and the reading of the body can come to
Rejected ==
    [kind |-> "rejected", status |-> 0, body |-> "none", data |-> NoResults, error |-> Null]
JsonBody(status, data, error) ==
    [kind |-> "response", status |-> status, body |-> "json", data |-> data, error |-> error]
Unparsable(status) ==
    [kind |-> "response", status |-> status, body |-> "unparsable", data |-> NoResults,
     error |-> Null]

\* the response POST returned, as fetch hands it over
FromResponse(resp) ==
    JsonBody(resp.status, [mode |-> resp.mode, items |-> resp.items],
             IF resp.status \in 200..299 THEN Null ELSE resp.error)

\* response.ok
ResponseOk(o) == o.kind = "response" /\ o.status \in 200..299

\* mutant: isSubmitting is reset on the paths of the try block only, not
\* when the fetch is rejected
handleSubmitResumesNoFinally(i, o) ==
    /\ i \in DOMAIN fetches
    /\ fetches' = [k \in 1..(Len(fetches) - 1) |-> IF k < i THEN fetches[k] ELSE fetches[k + 1]]
    /\ IF o.kind = "rejected"
       THEN formError' = "Something went wrong" /\ UNCHANGED results
       ELSE IF ~ResponseOk(o)
       THEN /\ formError' = IF o.body = "json" /\ o.error # Null THEN o.error
                            ELSE IF o.status = 500 THEN "Something went wrong"
                            ELSE "Invalid input"
            /\ UNCHANGED results
       ELSE IF o.body # "json"
       THEN formError' = "Something went wrong" /\ UNCHANGED results
       ELSE results' = o.data /\ UNCHANGED formError
    /\ isSubmitting' = (o.kind = "rejected")
    /\ UNCHANGED <<formMode, formTone, formGuidance, formMaxChars, imageFile, imageError,
                   copiedKey>>

\* handleSubmit after its `await fetch` (lines 197-216), for the i-th of the
\* fetches under way and what it came to
handleSubmitResumes(i, o) ==
    /\ i \in DOMAIN fetches
    /\ fetches' = [k \in 1..(Len(fetches) - 1) |-> IF k < i THEN fetches[k] ELSE fetches[k + 1]]
    /\ IF o.kind = "rejected"
       THEN formError' = "Something went wrong" /\ UNCHANGED results
       ELSE IF ~ResponseOk(o)
       THEN /\ formError' = IF o.body = "json" /\ o.error # Null THEN o.error
                            ELSE IF o.status = 500 THEN "Something went wrong"
                            ELSE "Invalid input"
            /\ UNCHANGED results
       ELSE IF o.body # "json"
       THEN formError' = "Something went wrong" /\ UNCHANGED results
       ELSE results' = o.data /\ UNCHANGED formError
    /\ isSubmitting' = FALSE
    /\ UNCHANGED <<formMode, formTone, formGuidance, formMaxChars, imageFile, imageError,
                   copiedKey>>

\* the keys of the copy buttons (lines 505-561)
CopyKeys == {"caption-0-text", "caption-0-full", "bio-0"}

\* handleCopy (lines 219-226), the clipboard write succeeding or failing
handleCopy(key, written) ==
    /\ results # NoResults
    /\ IF written
       THEN copiedKey' = key /\ UNCHANGED formError
       ELSE formError' = "Unable to copy to clipboard." /\ UNCHANGED copiedKey
    /\ UNCHANGED <<formMode, formTone, formGuidance, formMaxChars, imageFile, imageError,
                   isSubmitting, results, fetches>>

\* the timer of the effect of lines 51-56 fires, 2 seconds after a copy
CopiedTimerFires ==
    /\ copiedKey # Null
    /\ copiedKey' = Null
    /\ UNCHANGED <<formMode, formTone, formGuidance, formMaxChars, imageFile, imageError,
                   formError, isSubmitting, results, fetches>>

OnModeChange ==
    /\ \E next \in {"captions", "bio"} : onModeChange(next)
    /\ UNCHANGED serverVars

OnToneChange ==
    /\ \E i \in DOMAIN allowedTones : onToneChange(allowedTones[i])
    /\ UNCHANGED serverVars

OnGuidanceChange ==
    /\ \E value \in SampleGuidance : onGuidanceChange(value)
    /\ UNCHANGED serverVars

OnMaxCharsChange ==
    /\ \E value \in SampleMaxChars : onMaxCharsChange(value)
    /\ UNCHANGED serverVars

OnImageChange ==
    /\ \E files \in SampleFileLists : onImageChange(files)
    /\ UNCHANGED serverVars

\* handleSubmit, the request reaching POST
HandleSubmit ==
    /\ handleSubmit
    /\ ServerAt("start", FormRequest)

\* handleSubmit resumes: fetch rejected, or resolved with the response POST returned
HandleSubmitSettles ==
    /\ pc # "idle"
    /\ \E o \in {Rejected} \cup (IF pc = "done" THEN {FromResponse(response)} ELSE {}) :
          handleSubmitResumes(1, o)
    /\ ServerAt("idle", NoRequest)

\* The form and the validator of POST: the user works on the form while no
\* submission is under way (the submit button is disabled meanwhile, line
\* 457); the provider is left out, a request that passed validation stays
\* with it until the fetch fails.
InitForm ==
    /\ FormInit
    /\ hasKey \in BOOLEAN
    /\ req = NoRequest
    /\ pc = "idle"
    /\ mode = Null
    /\ phase = 0
    /\ attempt = 0
    /\ raw = NoText
    /\ parsed = Thrown
    /\ messages = <<>>
    /\ waitMs = 0
    /\ lastError = NoError
    /\ thrown = NoError
    /\ response = NoResponse
    /\ log = <<>>

NextForm ==
    \/ ~isSubmitting /\ OnModeChange
    \/ ~isSubmitting /\ OnToneChange
    \/ ~isSubmitting /\ OnGuidanceChange
    \/ ~isSubmitting /\ OnMaxCharsChange
    \/ ~isSubmitting /\ OnImageChange
    \/ ~isSubmitting /\ HandleSubmit
    \/ POSTBegin
    \/ HandleSubmitSettles

SpecForm == InitForm /\ [][NextForm]_vars

-----------------------------------------------------------------------------
(* The form over its submissions: the server is left out, a fetch comes to *)
(* any of the sampled outcomes.                                            *)

LifeGuidance == {<<>>, Rep("x", minBioGuidanceLength)}
LifeMaxChars == {<<>>, <<"4","0">>}

\* what a fetch sent for mode m can come to: rejected, the 200 of POST, the
\* 500 of POST, or a response whose body is no JSON (status 200, 500, 502)
FetchOutcomes(m) ==
    {Rejected,
     JsonBody(200, [mode |-> m, items |-> FallbackItems(m)], Null),
     JsonBody(500, NoResults, "Check your OpenAI credentials."),
     Unparsable(200), Unparsable(500), Unparsable(502)}

InitLife == InitForm /\ hasKey

\* the user's events on the fields, whether a submission is under way or not
FieldEvents ==
    \/ \E next \in {"captions", "bio"} : onModeChange(next)
    \/ onToneChange(FUNNY)
    \/ \E value \in LifeGuidance : onGuidanceChange(value)
    \/ \E value \in LifeMaxChars : onMaxCharsChange(value)
    \/ \E files \in SampleFileLists : onImageChange(files)

CopyEvents ==
    \/ \E key \in CopyKeys, written \in BOOLEAN : handleCopy(key, written)
    \/ CopiedTimerFires

\* a fetch under way settles and handleSubmit resumes
FetchSettles ==
    /\ \E i \in DOMAIN fetches : \E o \in FetchOutcomes(fetches[i].mode) : handleSubmitResumes(i, o)
    /\ UNCHANGED serverVars

\* the form is submitted through its button, disabled while isSubmitting
\* (line 457)
SubmitByButton ==
    /\ ~isSubmitting
    /\ handleSubmit
    /\ UNCHANGED serverVars

NextLife ==
    \/ FieldEvents /\ UNCHANGED serverVars
    \/ CopyEvents /\ UNCHANGED serverVars
    \/ SubmitByButton
    \/ FetchSettles

\* every fetch settles
SpecLife == InitLife /\ [][NextLife]_vars /\ WF_vars(FetchSettles)

\* handleSubmit is invoked whatever isSubmitting holds
SubmitAgain ==
    /\ Len(fetches) < MaxInFlight
    /\ handleSubmit
    /\ UNCHANGED serverVars

NextReentry ==
    \/ FieldEvents /\ UNCHANGED serverVars
    \/ CopyEvents /\ UNCHANGED serverVars
    \/ SubmitAgain
    \/ FetchSettles

SpecReentry == InitLife /\ [][NextReentry]_vars

-----------------------------------------------------------------------------
(* Properties *)

IsCall1(e) == e.op = "call" /\ e.phase = 1
IsCall2(e) == e.op = "call" /\ e.phase = 2

\* the outcomes of the provider calls of a phase, in order
Outcomes(ph) ==
    LET sel == IF ph = 1 THEN SelectSeq(log, IsCall1) ELSE SelectSeq(log, IsCall2)
    IN  [i \in DOMAIN sel |-> sel[i].outcome]

LastOutcome(ph) == Outcomes(ph)[Len(Outcomes(ph))]

\* the phase has run and callOpenAI has left it
PhaseOver(ph) == Outcomes(ph) # <<>> /\ (pc = "done" \/ phase > ph)

IsFallback == response = [status |-> 200, mode |-> mode, items |-> FallbackItems(mode), error |-> ""]

\* C1: every 200 response carries the mode of the request and exactly 5
\* {text, hashtags} items in captions mode, exactly 3 {text} items in bio mode.
C1_Shape ==
    response.status = 200 =>
        /\ response.mode \in {"captions", "bio"}
        /\ req.mode = StrEntry(ModeString(response.mode))
        /\ response.mode = "captions" =>
              /\ Len(response.items) = 5
              /\ \A i \in DOMAIN response.items : DOMAIN response.items[i] = {"text", "hashtags"}
        /\ response.mode = "bio" =>
              /\ Len(response.items) = 3
              /\ \A i \in DOMAIN response.items : DOMAIN response.items[i] = {"text"}

\* a 200 whose items come from the reply to the re-prompt, in captions mode
C1_Witness ==
    /\ response.status = 200
    /\ response.mode = "captions"
    /\ phase = 2
    /\ LastOutcome(2) = "text"
    /\ ~IsFallback

\* C2 (as stated): once the mode is known and the request passed validation,
\* POST answers 200 with an items list whatever the provider does; 500 and
\* 429 occur only while the mode is not determined.
C2_Original ==
    /\ (pc = "done" /\ mode # Null /\ response.status # 400) =>
          (response.status = 200 /\ response.items # <<>>)
    /\ response.status \in {429, 500} => mode = Null

\* C2 (amended): the same, except that an authorization failure (an APIError
\* of status 401 or 403) thrown by the first generating phase is answered
\* with 500 'Check your OpenAI credentials.'; 429 and the 500 'Something went
\* wrong' occur only while the mode is not determined.
C2_Amended ==
    /\ (pc = "done" /\ mode # Null /\ response.status # 400) =>
          \/ response.status = 200 /\ response.items # <<>>
          \/ /\ response = [status |-> 500, mode |-> Null, items |-> <<>>,
                            error |-> "Check your OpenAI credentials."]
             /\ phase = 1
             /\ LastOutcome(1) = "auth"
    /\ (pc = "done" /\ phase = 1 /\ LastOutcome(1) = "auth") => response.status = 500
    /\ response.status = 429 => mode = Null
    /\ (response.status = 500 /\ response.error # "Check your OpenAI credentials.") => mode = Null

\* an authorization failure of the re-prompt phase absorbed into a 200
C2_Witness ==
    /\ pc = "done"
    /\ phase = 2
    /\ LastOutcome(2) = "auth"
    /\ response.status = 200
    /\ response.items # <<>>

\* C3: a request answered 400 'Invalid input' made no provider call.
C3_NoCallBefore400 ==
    response.status = 400 =>
        /\ response = [status |-> 400, mode |-> Null, items |-> <<>>, error |-> "Invalid input"]
        /\ log = <<>>
        /\ phase = 0

\* a field rule failed with the mode valid and credentials configured
C3_Witness ==
    /\ response.status = 400
    /\ mode = "captions"
    /\ hasKey
    /\ log = <<>>

\* the first reply: the assistant message of the re-prompt, or `raw`
FirstReply == IF phase = 2 THEN messages[Len(messages) - 1].reply ELSE raw

\* C4: a first reply that fails parsing is followed by exactly one re-prompt
\* phase; if the second reply fails parsing too the response is 200 with the
\* static fallback of the mode; there is never a third generating phase.
C4_OneReprompt ==
    /\ phase \in 0..2
    /\ \A i \in DOMAIN log : log[i].phase \in 1..2
    /\ Cardinality({i \in DOMAIN log : log[i].op = "call" /\ log[i].phase = 2 /\ log[i].attempt = 1}) <= 1
    /\ (PhaseOver(1) /\ LastOutcome(1) = "text" /\ ~parsePayload(mode, FirstReply).ok) =>
          (phase = 2 /\ Outcomes(2) # <<>>)
    /\ (PhaseOver(2) /\ LastOutcome(2) = "text" /\ ~parsePayload(mode, raw).ok) =>
          /\ response.status = 200
          /\ response.mode = mode
          /\ response.items = IF mode = "captions" THEN buildFallbackCaptions ELSE buildFallbackBios

\* both replies failed parsing, in bio mode
C4_Witness ==
    /\ pc = "done"
    /\ mode = "bio"
    /\ phase = 2
    /\ LastOutcome(1) = "text"
    /\ LastOutcome(2) = "text"
    /\ ~parsePayload(mode, FirstReply).ok
    /\ ~parsePayload(mode, raw).ok
    /\ response.items = buildFallbackBios

\* C5: in one callOpenAI the calls made are min(k, 3), k the position of the
\* first outcome that is no rate-limit signal: only a rate limit is followed
\* by another attempt, and there are never more than 3.
C5_Attempts ==
    \A ph \in 1..2 :
        LET o == Outcomes(ph)
        IN  /\ Len(o) <= 3
            /\ \A i \in 1..(Len(o) - 1) : o[i] = "ratelimit"
            /\ PhaseOver(ph) => (o[Len(o)] # "inflight" /\ (o[Len(o)] # "ratelimit" \/ Len(o) = 3))
            /\ (~PhaseOver(ph) /\ o # <<>>) =>
                  IF pc = "calling" THEN o[Len(o)] = "inflight"
                  ELSE o[Len(o)] = "ratelimit" /\ Len(o) < 3

\* a rate limit, then an error that is none: two calls
C5_Witness ==
    /\ pc = "done"
    /\ Outcomes(1) = <<"ratelimit", "error">>

\* C6: if every attempt of the first phase is rate-limited, callOpenAI makes
\* exactly 3 attempts and throws the last error it saw, and POST answers 200
\* with the static fallback of the mode, with no re-prompt phase and no 429.
C6_RateLimitExhausted ==
    (pc = "done" /\ Outcomes(1) # <<>> /\ \A i \in DOMAIN Outcomes(1) : Outcomes(1)[i] = "ratelimit") =>
        /\ Len(Outcomes(1)) = 3
        /\ Cardinality(Sleeps(log)) = 2
        /\ thrown = lastError
        /\ thrown.cls = "RateLimitError" \/ thrown.status = 429
        /\ Outcomes(2) = <<>>
        /\ response.status = 200
        /\ response.mode = mode
        /\ response.items = IF mode = "captions" THEN buildFallbackCaptions ELSE buildFallbackBios

\* three rate-limited attempts of the first phase, in captions mode
C6_Witness ==
    /\ pc = "done"
    /\ mode = "captions"
    /\ Outcomes(1) = <<"ratelimit", "ratelimit", "ratelimit">>
    /\ response.status = 200

-----------------------------------------------------------------------------
(* Properties of the validator, checked on every combination of the        *)
(* sampled field values (SpecValidate)                                     *)

ValidMode(r) == r.bodyOk /\ r.mode \in {StrEntry(CAPTIONS), StrEntry(BIO)}

\* the sampled maxChars strings that denote an integer in [40,220]
IntegerStringsInRange ==
    {<<"4","0">>, <<"2","2","0">>, <<"4","0",".","0">>, <<" ","4","0"," ">>}

RefMaxCharsPresent(r) == r.maxChars.k = "str" /\ r.maxChars.s # <<>>
RefMaxCharsOK(r) == RefMaxCharsPresent(r) => r.maxChars.s \in IntegerStringsInRange

RefToneIsOneOfFour(r) ==
    r.tone.k = "str" /\ ToLowerCase(r.tone.s) \in {FUNNY, POETIC, CLASSY, BRANDED}

RefTrimmedGuidanceLength(r) == IF r.guidance.k = "str" THEN Len(Trim(r.guidance.s)) ELSE 0

RefCaptionsOK(r) ==
    /\ RefToneIsOneOfFour(r)
    /\ RefTrimmedGuidanceLength(r) <= 280
    /\ r.image.k = "file"
    /\ r.image.type \in {"image/png", "image/jpeg"}
    /\ r.image.size <= 3 * 1024 * 1024

\* the claim's words: tone absent or one of the four values
RefBioOKAsStated(r) ==
    /\ RefTrimmedGuidanceLength(r) \in 10..400
    /\ r.tone.k = "null" \/ RefToneIsOneOfFour(r)

\* tone absent, not a string, empty or one of the four values
RefBioOK(r) ==
    /\ RefTrimmedGuidanceLength(r) \in 10..400
    /\ r.tone.k # "str" \/ r.tone.s = <<>> \/ RefToneIsOneOfFour(r)

RefFieldsOK(r) == IF r.mode.s = CAPTIONS THEN RefCaptionsOK(r) ELSE RefBioOK(r)

FallbackResponse(r) ==
    IF r.mode.s = CAPTIONS
    THEN [status |-> 200, mode |-> "captions", items |-> buildFallbackCaptions, error |-> ""]
    ELSE [status |-> 200, mode |-> "bio", items |-> buildFallbackBios, error |-> ""]

Is400 == pc = "done" /\ response = [status |-> 400, mode |-> Null, items |-> <<>>, error |-> "Invalid input"]

\* C7: without credentials a captions or bio request is answered 200 with
\* the static fallback of its mode and no provider call, whatever its other
\* fields hold; an invalid mode is still answered 400.
C7_NoCredentials ==
    (~hasKey /\ pc # "start" /\ req.bodyOk) =>
        /\ pc = "done"
        /\ log = <<>>
        /\ phase = 0
        /\ IF ValidMode(req) THEN response = FallbackResponse(req) ELSE Is400

\* no credentials, captions mode, maxChars "39" and no image: 200
C7_Witness ==
    /\ ~hasKey
    /\ pc = "done"
    /\ req.mode = StrEntry(CAPTIONS)
    /\ req.maxChars = StrEntry(<<"3","9">>)
    /\ req.image = NoEntry
    /\ response = FallbackResponse(req)

\* C8 (as stated): with a valid mode, a maxChars that is present, non-empty
\* and no integer in [40,220] is answered 400 'Invalid input'; "40" and
\* "220" pass the rule.
C8_Original ==
    (pc # "start" /\ ValidMode(req)) =>
        /\ (RefMaxCharsPresent(req) /\ ~RefMaxCharsOK(req)) => Is400
        /\ (req.maxChars.s \in {<<"4","0">>, <<"2","2","0">>} /\ RefFieldsOK(req)) => ~Is400

\* C8 (amended): the same when credentials are configured.
C8_Amended ==
    (hasKey /\ pc # "start" /\ ValidMode(req)) =>
        /\ (RefMaxCharsPresent(req) /\ ~RefMaxCharsOK(req)) => (Is400 /\ log = <<>>)
        /\ (req.maxChars.s \in {<<"4","0">>, <<"2","2","0">>} /\ RefFieldsOK(req)) => pc = "calling"

\* bio mode, every other field valid, maxChars "39": 400
C8_Witness ==
    /\ hasKey
    /\ req.mode = StrEntry(BIO)
    /\ req.maxChars = StrEntry(<<"3","9">>)
    /\ RefBioOK(req)
    /\ Is400

\* C9 (as stated): with credentials, a valid mode and a valid maxChars the
\* request reaches the provider iff, in captions mode, tone is one of the
\* four values (case-insensitively), the guidance is within 280 and the
\* image is a PNG or JPEG file of at most 3 MiB; in bio mode, the trimmed
\* guidance length is in [10,400] and tone is absent or one of the four
\* values, an absent tone being replaced by classy; a rejection is the 400.
C9_Original ==
    (hasKey /\ pc # "start" /\ ValidMode(req) /\ RefMaxCharsOK(req)) =>
        LET ok == IF req.mode.s = CAPTIONS THEN RefCaptionsOK(req) ELSE RefBioOKAsStated(req)
        IN  /\ pc = "calling" <=> ok
            /\ ~ok => Is400
            /\ (ok /\ req.mode.s = BIO /\ req.tone.k = "null") =>
                  messages[2].instr.tone = <<"C","l","a","s","s","y">>

\* C9 (amended): in bio mode tone is absent, not a string, empty or one of
\* the four values, and a tone that is absent, not a string or empty is
\* replaced by classy.
C9_Amended ==
    (hasKey /\ pc # "start" /\ ValidMode(req) /\ RefMaxCharsOK(req)) =>
        /\ pc = "calling" <=> RefFieldsOK(req)
        /\ ~RefFieldsOK(req) => (Is400 /\ log = <<>>)
        /\ (RefFieldsOK(req) /\ req.mode.s = BIO /\ (req.tone.k # "str" \/ req.tone.s = <<>>)) =>
              messages[2].instr.tone = <<"C","l","a","s","s","y">>
        /\ (RefFieldsOK(req) /\ req.tone.k = "str" /\ req.tone.s # <<>>) =>
              ToLowerCase(messages[2].instr.tone) = ToLowerCase(req.tone.s)

\* bio mode, guidance of trimmed length 10, an empty tone: accepted as classy
C9_Witness ==
    /\ hasKey
    /\ pc = "calling"
    /\ req.mode = StrEntry(BIO)
    /\ req.tone = StrEntry(<<>>)
    /\ RefTrimmedGuidanceLength(req) = 10
    /\ messages[2].instr.tone = <<"C","l","a","s","s","y">>

\* C10: every item of a 200 response has a text that is not empty after
\* trimming and, in captions mode, hashtags that are not empty after trimming.
C10_NonEmptyFields ==
    response.status = 200 =>
        \A i \in DOMAIN response.items :
            /\ Trim(response.items[i].text) # <<>>
            /\ response.mode = "captions" => Trim(response.items[i].hashtags) # <<>>

-----------------------------------------------------------------------------
(* Termination and resources *)

\* Every provider call and every backoff sleep that was started returns:
\* the awaited promise of line 59 settles, the timer of line 121 fires.
SpecFair == Spec /\ WF_vars(Next)

InFlight == {i \in DOMAIN log : log[i].op = "call" /\ log[i].outcome = "inflight"}

\* C11: every request ends with exactly one response (each call and each
\* sleep returning); it runs at most 2 generating phases of at most 3
\* attempts each, so at most 6 provider calls and at most 4 backoff sleeps,
\* and never has more than one provider call in flight.
C11_Terminates ==
    /\ <>(pc = "done")
    /\ [](/\ (pc = "done") <=> (response # NoResponse)
          /\ phase <= 2
          /\ \A ph \in 1..2 : Cardinality(CallsIn(log, ph)) <= 3
          /\ Cardinality(Calls(log)) <= 6
          /\ Cardinality(Sleeps(log)) <= 4
          /\ Cardinality(InFlight) <= 1)
    /\ [][response # NoResponse => response' = response]_vars

\* a request answered after 6 provider calls and 4 sleeps
C11_Witness ==
    /\ pc = "done"
    /\ response # NoResponse
    /\ Cardinality(Calls(log)) = 6
    /\ Cardinality(Sleeps(log)) = 4

-----------------------------------------------------------------------------
(* Authorization failures *)

CredentialsResponse ==
    [status |-> 500, mode |-> Null, items |-> <<>>, error |-> "Check your OpenAI credentials."]

\* the first generating phase ended on an authorization failure
FirstPhaseAuthFailure == pc = "done" /\ Outcomes(1) # <<>> /\ LastOutcome(1) = "auth"

\* C12 (as stated): if the first generating phase fails with an authorization
\* failure (provider status 401 or 403), exactly 1 provider call is made for
\* the request, there is no re-prompt, and POST answers 500 'Check your
\* OpenAI credentials.', which is not the rate-limit outcome.
C12_Original ==
    FirstPhaseAuthFailure =>
        /\ Cardinality(Calls(log)) = 1
        /\ phase = 1
        /\ response = CredentialsResponse
        /\ ~IsFallback

\* C12 (amended): if the first generating phase fails with an authorization
\* failure, the failing call is not retried and is the last provider call
\* of the request: it is the only call unless rate-limited attempts came
\* before it in the phase (then it is the second or the third), there is no
\* re-prompt, and POST answers 500 'Check your OpenAI credentials.'.
C12_Amended ==
    FirstPhaseAuthFailure =>
        /\ phase = 1
        /\ Cardinality(Calls(log)) = Len(Outcomes(1))
        /\ Len(Outcomes(1)) <= MAX_OPENAI_ATTEMPTS
        /\ \A i \in 1..(Len(Outcomes(1)) - 1) : Outcomes(1)[i] = "ratelimit"
        /\ log[Len(log)].op = "call"
        /\ response = CredentialsResponse
        /\ ~IsFallback

\* the authorization failure came on the third attempt, after two rate limits
C12_Witness ==
    /\ FirstPhaseAuthFailure
    /\ Outcomes(1) = <<"ratelimit", "ratelimit", "auth">>
    /\ response = CredentialsResponse

-----------------------------------------------------------------------------
(* The form against the validator *)

-----------------------------------------------------------------------------
(* When the re-prompt runs *)

\* the first generating phase returned a text and that text failed parsing
FirstReplyFailedParsing ==
    /\ Outcomes(1) # <<>>
    /\ LastOutcome(1) = "text"
    /\ ~parsePayload(mode, FirstReply).ok

RePromptStarts == {i \in DOMAIN log : log[i].op = "call" /\ log[i].phase = 2 /\ log[i].attempt = 1}

\* C14: the re-prompt phase is started if and only if the first phase
\* returned a text that failed parsing; it is never started when the first
\* reply parses or when the first phase raised an error, and it is started
\* at most once per request.
C14_RePromptIff ==
    /\ (phase = 2) <=> FirstReplyFailedParsing
    /\ (RePromptStarts # {}) <=> (phase = 2)
    /\ Cardinality(RePromptStarts) <= 1
    /\ (pc = "done" /\ Outcomes(1) # <<>> /\ LastOutcome(1) # "text") =>
          (phase = 1 /\ thrown # NoError /\ Outcomes(2) = <<>>)
    /\ (pc = "done" /\ phase = 1 /\ Outcomes(1) # <<>> /\ LastOutcome(1) = "text") =>
          (parsePayload(mode, raw).ok /\ Outcomes(2) = <<>>)

\* the re-prompt is under way after a first reply, obtained on the second
\* attempt, that failed parsing
C14_Witness ==
    /\ pc = "calling"
    /\ phase = 2
    /\ Outcomes(1) = <<"ratelimit", "text">>
    /\ ~parsePayload(mode, FirstReply).ok
    /\ Outcomes(2) = <<"inflight">>

-----------------------------------------------------------------------------
(* Failures of the re-prompt *)

\* the ways the re-prompt phase can fail
RePromptFailures == {"empty", "ratelimit", "auth", "error"}

\* C15: once the re-prompt phase has started, every failure (a second parse
\* failure, rate-limit exhaustion, a 401/403 authorization failure, any
\* other provider error, an empty reply) ends the request with 200 and the
\* static fallback of the mode; no 4xx or 5xx is returned from that point.
C15_RePromptFallback ==
    phase = 2 =>
        /\ response = NoResponse \/ response.status = 200
        /\ pc = "done" => response.mode = mode
        /\ (pc = "done" /\ LastOutcome(2) \in RePromptFailures) =>
              (IsFallback /\ thrown # NoError)
        /\ (pc = "done" /\ LastOutcome(2) = "text" /\ ~parsePayload(mode, raw).ok) => IsFallback
        /\ (pc = "done" /\ LastOutcome(2) = "ratelimit") =>
              Outcomes(2) = <<"ratelimit", "ratelimit", "ratelimit">>
        /\ pc = "done" => LastOutcome(2) \in RePromptFailures \cup {"text"}

\* the re-prompt ended on an authorization failure of status 403 and the
\* request was answered with the fallback
C15_Witness ==
    /\ pc = "done"
    /\ phase = 2
    /\ LastOutcome(2) = "auth"
    /\ thrown.status = 403
    /\ IsFallback

-----------------------------------------------------------------------------
(* Backoff sleeps *)

\* the milliseconds a sleep is to last, by the retry-after header of the
\* rate-limit error before it
ExpectedWaitMs(h) ==
    IF h = Header(<<"2">>) THEN 2000
    ELSE IF h = Header(<<"1",".","5">>) THEN 1500
    ELSE 20000

\* C16: a sleep happens only after a rate-limited attempt that is not the
\* third of its phase, and exactly one sleep lies between two consecutive
\* attempts of a phase; no sleep follows the final attempt, a success or an
\* error that is no rate limit.  A sleep lasts the retry-after value in
\* seconds when the header is present, finite and above 0, and 20 seconds
\* otherwise (absent, no number, zero or negative), whatever the attempt.
C16_Sleeps ==
    /\ \A i \in DOMAIN log :
          log[i].op = "sleep" =>
              /\ i > 1
              /\ log[i - 1].op = "call"
              /\ log[i - 1].outcome = "ratelimit"
              /\ log[i - 1].phase = log[i].phase
              /\ log[i - 1].attempt = log[i].attempt
              /\ log[i].attempt < 3
    /\ \A i \in DOMAIN log :
          (log[i].op = "call" /\ log[i].attempt > 1) =>
              /\ i > 2
              /\ log[i - 1] = SleepEntry(log[i].phase, log[i].attempt - 1)
              /\ log[i - 2].op = "call"
    /\ \A i \in DOMAIN log :
          (log[i].op = "call" /\ (log[i].outcome # "ratelimit" \/ log[i].attempt = 3)) =>
              (i < Len(log) => log[i + 1].op = "call")
    /\ (pc = "sleeping") <=> (log # <<>> /\ log[Len(log)].op = "sleep")
    /\ pc = "sleeping" =>
          /\ IsRateLimit(lastError)
          /\ waitMs = ExpectedWaitMs(lastError.retryAfter)
    /\ pc # "sleeping" => waitMs = 0

\* the second sleep of the re-prompt phase, lasting the 1.5 seconds its
\* retry-after header asks for
C16_Witness ==
    /\ pc = "sleeping"
    /\ phase = 2
    /\ attempt = 2
    /\ lastError.retryAfter = Header(<<"1",".","5">>)
    /\ waitMs = 1500

-----------------------------------------------------------------------------
(* Provider output is used when it conforms *)

Answer200(m, items) == [status |-> 200, mode |-> m, items |-> items, error |-> ""]

\* C17: if the first reply parses, the response is 200 with exactly the
\* items parsed from it and only one generating phase runs; if the first
\* reply fails parsing and the second parses, the response is 200 with the
\* items parsed from the second reply; the fallback items are returned only
\* after a failure (no credentials, a phase that raised, a second reply that
\* fails parsing).
C17_ConformingOutputKept ==
    /\ (pc = "done" /\ Outcomes(1) # <<>> /\ LastOutcome(1) = "text"
          /\ parsePayload(mode, FirstReply).ok) =>
          /\ phase = 1
          /\ Outcomes(2) = <<>>
          /\ response = Answer200(mode, parsePayload(mode, FirstReply).items)
          /\ ~IsFallback
    /\ (pc = "done" /\ phase = 2 /\ LastOutcome(2) = "text" /\ parsePayload(mode, raw).ok) =>
          /\ ~parsePayload(mode, FirstReply).ok
          /\ response = Answer200(mode, parsePayload(mode, raw).items)
          /\ ~IsFallback
    /\ (pc = "done" /\ IsFallback) =>
          \/ ~hasKey
          \/ thrown # NoError /\ LastOutcome(phase) \in {"empty", "ratelimit", "auth", "error"}
          \/ phase = 2 /\ LastOutcome(2) = "text" /\ ~parsePayload(mode, raw).ok

\* five captions taken from the second reply, with their whitespace removed
C17_Witness ==
    /\ pc = "done"
    /\ mode = "captions"
    /\ phase = 2
    /\ LastOutcome(2) = "text"
    /\ ~parsePayload(mode, FirstReply).ok
    /\ raw.doc = JsonDoc("object", "array", [i \in 1..captionsItemCount |-> GoodEntry(MaxPad, "b")])
    /\ response = Answer200("captions", [i \in 1..captionsItemCount |->
                                            [text |-> <<"b">>, hashtags |-> <<"#", "b">>]])

-----------------------------------------------------------------------------
(* What the parsers accept and return *)

\* the number of entries the mode asks for
RequiredCount(m) == IF m = "captions" THEN 5 ELSE 3

\* the fields an item of the mode has
RequiredFields(m) == IF m = "captions" THEN {"text", "hashtags"} ELSE {"text"}

\* the entry is an object whose required fields are strings
EntryConforms(m, e) ==
    /\ e.k = "object"
    /\ \A f \in RequiredFields(m) : e[f].k = "str"

\* the reply decodes as JSON to an object whose items field is an array of
\* the required number of conforming entries
ReplyConforms(m, t) ==
    /\ t.doc.k = "json"
    /\ t.doc.top = "object"
    /\ t.doc.items = "array"
    /\ Len(t.doc.arr) = RequiredCount(m)
    /\ \A i \in 1..Len(t.doc.arr) : EntryConforms(m, t.doc.arr[i])

\* out is str without its leading and trailing whitespace
IsTrimOf(out, str) ==
    \E a \in 0..Len(str) : \E b \in 0..(Len(str) - a) :
        /\ \A i \in 1..a : IsSpace(str[i])
        /\ \A i \in (Len(str) - b + 1)..Len(str) : IsSpace(str[i])
        /\ out = SubSeq(str, a + 1, Len(str) - b)
        /\ out # <<>> => (~IsSpace(out[1]) /\ ~IsSpace(out[Len(out)]))

\* C18: the parser of the mode accepts a reply iff it decodes as JSON, has
\* an items field that is an array of exactly 5 (captions) or 3 (bio)
\* entries, and every entry has its required fields as strings (text and
\* hashtags, or text alone); any other count, or one entry with a missing or
\* non-string field, rejects the whole payload.  On acceptance the result
\* has as many entries in the same order, each field the input field
\* without its leading and trailing whitespace, and no other field.
C18_Parsers ==
    pc = "parsed" =>
        /\ parsed.ok <=> ReplyConforms(mode, raw)
        /\ ~parsed.ok => parsed.items = <<>>
        /\ parsed.ok =>
              /\ Len(parsed.items) = Len(raw.doc.arr)
              /\ \A i \in 1..Len(parsed.items) :
                    /\ DOMAIN parsed.items[i] = RequiredFields(mode)
                    /\ \A f \in RequiredFields(mode) :
                          IsTrimOf(parsed.items[i][f], raw.doc.arr[i][f].s)

\* three bios accepted from entries that carry padded texts and, for the
\* last, a field the mode does not ask for and that is no string
C18_Witness ==
    /\ pc = "parsed"
    /\ mode = "bio"
    /\ parsed.ok
    /\ raw.doc.arr[3] = ObjEntry(StrField(<<"a">>), OtherField)
    /\ raw.doc.arr[1] = GoodEntry(1, "a")
    /\ parsed.items = <<[text |-> <<"a">>], [text |-> <<"b">>], [text |-> <<"a">>]>>

-----------------------------------------------------------------------------
(* Other failures of the first phase *)

\* the first generating phase ended on an empty reply or on a provider error
\* that is neither a rate limit nor an authorization failure
FirstPhaseOtherFailure ==
    pc = "done" /\ Outcomes(1) # <<>> /\ LastOutcome(1) \in {"empty", "error"}

\* C19 (as stated): if the first generating phase fails with an empty reply
\* or with a provider error that is neither a rate limit nor 401/403, the
\* failure is not retried inside callOpenAI (exactly 1 provider call), no
\* re-prompt is run, and POST answers 200 with the static fallback of the mode.
C19_Original ==
    FirstPhaseOtherFailure =>
        /\ Cardinality(Calls(log)) = 1
        /\ phase = 1
        /\ IsFallback

\* C19 (amended): if the first generating phase fails with an empty reply or
\* with a provider error that is neither a rate limit nor 401/403, the
\* failing call is not retried and is the last provider call of the request
\* (the only one unless rate-limited attempts came before it in the phase,
\* then the second or the third), no re-prompt is run, and POST answers 200
\* with the static fallback of the mode.
C19_Amended ==
    FirstPhaseOtherFailure =>
        /\ phase = 1
        /\ Cardinality(Calls(log)) = Len(Outcomes(1))
        /\ Len(Outcomes(1)) <= MAX_OPENAI_ATTEMPTS
        /\ \A i \in 1..(Len(Outcomes(1)) - 1) : Outcomes(1)[i] = "ratelimit"
        /\ log[Len(log)].op = "call"
        /\ thrown # NoError
        /\ ~IsRateLimit(thrown)
        /\ response.status = 200
        /\ IsFallback

\* an empty reply on the second attempt, after a rate limit, answered with
\* the fallback captions
C19_Witness ==
    /\ FirstPhaseOtherFailure
    /\ mode = "captions"
    /\ Outcomes(1) = <<"ratelimit", "empty">>
    /\ response = Answer200("captions", buildFallbackCaptions)

-----------------------------------------------------------------------------
(* The 429 response *)

TooManyRequests ==
    [status |-> 429, mode |-> Null, items |-> <<>>, error |-> "Easy there. Try again in a moment."]

\* C20: the 429 response ('Easy there. Try again in a moment.') is never
\* returned: a provider call happens only after POST's mode has been set to
\* captions or bio, so no rate-limit error is observed while mode is null.
C20_No429 ==
    /\ response # TooManyRequests
    /\ response.status # 429
    /\ log # <<>> => mode \in {"captions", "bio"}
    /\ pc \in {"calling", "sleeping"} => mode \in {"captions", "bio"}
    /\ lastError # NoError => mode \in {"captions", "bio"}
    /\ (thrown # NoError /\ IsRateLimit(thrown)) => (mode \in {"captions", "bio"} /\ IsFallback)

\* a rate limit of status 429 that outlasted the three attempts of the first
\* phase, met with the mode set and answered with the fallback
C20_Witness ==
    /\ pc = "done"
    /\ phase = 1
    /\ mode = "bio"
    /\ Outcomes(1) = <<"ratelimit", "ratelimit", "ratelimit">>
    /\ IsAPIError(thrown)
    /\ thrown.status = 429
    /\ IsFallback

-----------------------------------------------------------------------------
(* The messages of the re-prompt *)

\* the corrective instruction the mode uses, a user message without image
IsCorrective(m, msg) ==
    /\ msg.role = "user"
    /\ msg.instr.template = IF m = "captions" THEN "retryCaptions" ELSE "retryBio"
    /\ msg.image = NoImage
    /\ msg.reply = NoText

\* a system directive, then the user instruction, with the image of the
\* request attached in captions mode
IsOriginalList(m, msgs) ==
    /\ Len(msgs) = 2
    /\ msgs[1].role = "system"
    /\ msgs[1].instr.template = "systemPrompt"
    /\ msgs[2].role = "user"
    /\ msgs[2].instr.template = m
    /\ msgs[2].image = IF m = "captions"
                       THEN [type |-> req.image.type, size |-> req.image.size]
                       ELSE NoImage

\* C21: the message list of the re-prompt phase is the original list,
\* unchanged and in the same order (system directive, then the user
\* instruction, with the image in captions mode), followed by one assistant
\* message whose content is exactly the first reply as callOpenAI returned
\* it (`raw`), followed by one user message with the corrective instruction;
\* the original list is not modified, and neither list changes between the
\* attempts of its phase.
C21_RePromptMessages ==
    /\ [](phase = 1 => IsOriginalList(mode, messages))
    /\ [](phase = 2 =>
            /\ Len(messages) = 4
            /\ IsOriginalList(mode, SubSeq(messages, 1, 2))
            /\ messages[3].role = "assistant"
            /\ messages[3].instr = NoInstr
            /\ messages[3].image = NoImage
            /\ IsCorrective(mode, messages[4]))
    /\ [][(phase = 1 /\ phase' = 2) =>
            /\ SubSeq(messages', 1, 2) = messages
            /\ messages'[3].reply = raw'
            /\ \E c \in SampleContents : c.k # "none" /\ raw' = TextTrim(c.t)]_vars
    /\ [][phase' = phase => messages' = messages]_vars

\* the re-prompt of a captions request at its second attempt: the list still
\* opens with the original two messages, the image attached to the second
C21_Witness ==
    /\ pc = "calling"
    /\ mode = "captions"
    /\ phase = 2
    /\ attempt = 2
    /\ messages[2].image = [type |-> IMAGE_PNG, size |-> 2 * 1024 * 1024]
    /\ messages[3].reply.doc = GarbageDoc
    /\ messages[4].instr.template = "retryCaptions"

-----------------------------------------------------------------------------
(* The guidance bound of captions mode *)

\* a captions request that has been through the validator and whose fields
\* other than guidance pass their rules
CaptionsOtherwiseValid ==
    /\ pc # "start"
    /\ ValidMode(req)
    /\ req.mode.s = CAPTIONS
    /\ RefMaxCharsOK(req)
    /\ RefToneIsOneOfFour(req)
    /\ req.image.k = "file"
    /\ req.image.type \in {"image/png", "image/jpeg"}
    /\ req.image.size <= 3 * 1024 * 1024

\* the length of the guidance field as submitted (0 when it is no string)
SubmittedGuidanceLength(r) == IF r.guidance.k = "str" THEN Len(r.guidance.s) ELSE 0

\* C22 (as stated): in captions mode a request whose guidance field is
\* longer than 280 characters is answered 400 'Invalid input' and a guidance
\* of length 0 to 280 is accepted by the rule, the bound being applied to
\* the length of the guidance as submitted.
C22_Original ==
    (hasKey /\ CaptionsOtherwiseValid) =>
        /\ SubmittedGuidanceLength(req) > 280 => (Is400 /\ log = <<>>)
        /\ SubmittedGuidanceLength(req) <= 280 => pc = "calling"

\* C22 (amended): with credentials configured, in captions mode a request
\* whose guidance, once its leading and trailing whitespace is removed, is
\* longer than 280 characters is answered 400 'Invalid input', and a
\* guidance of trimmed length 0 to 280 is accepted by the rule: the bound
\* applies to the trimmed guidance, not to the field as submitted.
C22_Amended ==
    (hasKey /\ CaptionsOtherwiseValid) =>
        /\ RefTrimmedGuidanceLength(req) > 280 => (Is400 /\ log = <<>>)
        /\ RefTrimmedGuidanceLength(req) <= 280 =>
              /\ pc = "calling"
              /\ response = NoResponse
              /\ messages[2].instr.guidance =
                    IF RefTrimmedGuidanceLength(req) = 0 THEN NONE ELSE Trim(req.guidance.s)

\* a guidance of 282 characters as submitted, 280 once trimmed, accepted
C22_Witness ==
    /\ hasKey
    /\ CaptionsOtherwiseValid
    /\ SubmittedGuidanceLength(req) = 280 + 2 * MaxPad
    /\ RefTrimmedGuidanceLength(req) = 280
    /\ pc = "calling"

-----------------------------------------------------------------------------
(* The submission lifecycle of the form *)

HasResults == results # NoResults
HasError == formError # Null

\* C23: every handleSubmit that passes the ctaEnabled guard sets
\* isSubmitting and clears error and results before the fetch; whatever the
\* fetch comes to (ok response, non-ok response, rejected fetch, unparsable
\* body) isSubmitting returns to false; when the submission completes with
\* error and results still clear, exactly one of results and error is set:
\* results on an ok response whose body is read, error otherwise.
C23_Lifecycle ==
    /\ [][Len(fetches') > Len(fetches) =>
            (ctaEnabled /\ isSubmitting' /\ formError' = Null /\ results' = NoResults)]_vars
    /\ [](isSubmitting <=> fetches # <<>>)
    /\ isSubmitting ~> ~isSubmitting
    /\ [][\A o \in FetchOutcomes(formMode) \cup FetchOutcomes("captions") :
            (~HasResults /\ ~HasError /\ handleSubmitResumes(1, o)) =>
                /\ ~isSubmitting'
                /\ (results' # NoResults) # (formError' # Null)
                /\ (results' # NoResults) <=> (ResponseOk(o) /\ o.body = "json")]_vars

\* a submission ended on a response that was not ok and whose body was no
\* JSON: the error shown is the default of its status, there are no results
C23_Witness ==
    /\ ~isSubmitting
    /\ fetches = <<>>
    /\ formError = "Invalid input"
    /\ results = NoResults

\* C24: results, when not null, are results of the selected mode.
C24_ResultsOfMode == HasResults => results.mode = formMode

\* C25: no second fetch is started while one is under way, also when
\* handleSubmit is invoked again while isSubmitting is true.
C25_OneInFlight == Len(fetches) <= 1

-----------------------------------------------------------------------------
(* The image selection and the mode change *)

\* the first file of the selection is a JPEG or a PNG of at most 3 MiB
SelectionAccepted(files) ==
    /\ files # <<>>
    /\ files[1].type \in {"image/jpeg", "image/png"}
    /\ files[1].size <= 3 * 1024 * 1024

\* C26: after any sequence of onImageChange and resetForMode events, a
\* non-null imageFile is a JPEG or PNG of at most 3*1024*1024 bytes,
\* imageFile and imageError are never both non-null, and a selection that is
\* rejected or empty leaves imageFile null, whatever file was held before.
C26_ImageSelection ==
    /\ [](imageFile # NoEntry =>
            /\ imageFile.k = "file"
            /\ imageFile.type \in {"image/jpeg", "image/png"}
            /\ imageFile.size <= 3 * 1024 * 1024
            /\ imageError = Null)
    /\ [][\A files \in SampleFileLists :
            onImageChange(files) =>
                IF SelectionAccepted(files)
                THEN imageFile' = files[1] /\ imageError' = Null
                ELSE /\ imageFile' = NoEntry
                     /\ (imageError' = Null) <=> (files = <<>>)]_vars
    /\ [][imageFile' # imageFile =>
            \/ \E files \in SampleFileLists : onImageChange(files)
            \/ resetForMode("bio")]_vars

\* a selection was turned down for its size and no file is held
C26_Witness ==
    /\ formMode = "captions"
    /\ imageFile = NoEntry
    /\ imageError = "Image must be 3MB or smaller."

\* C27: resetForMode(nextMode) sets mode to nextMode and clears error,
\* results and imageError; it clears imageFile only when nextMode is bio; it
\* leaves tone, guidance, maxChars, isSubmitting and copiedKey unchanged,
\* and imageFile too when nextMode is captions.
C27_ModeChangeFrame ==
    [][\A next \in {"captions", "bio"} :
          resetForMode(next) =>
              /\ formMode' = next
              /\ formError' = Null
              /\ results' = NoResults
              /\ imageError' = Null
              /\ next = "bio" => imageFile' = NoEntry
              /\ next = "captions" => imageFile' = imageFile
              /\ formTone' = formTone
              /\ formGuidance' = formGuidance
              /\ formMaxChars' = formMaxChars
              /\ isSubmitting' = isSubmitting
              /\ copiedKey' = copiedKey
              /\ fetches' = fetches]_vars

\* the mode was changed to bio while a captions submission was under way
\* and a copy was still marked: tone, isSubmitting and copiedKey are kept
C27_Witness ==
    /\ formMode = "bio"
    /\ fetches = <<[mode |-> "captions"]>>
    /\ isSubmitting
    /\ copiedKey # Null
    /\ formTone = FUNNY
    /\ imageFile = NoEntry
    /\ results = NoResults

====
